---- MODULE Spec2Model ----
(***************************************************************************)
(* Remote BEAM node manager (mcp-beam): the node registry, the SSH          *)
(* connection pool and the tool handlers of the server, as a state machine. *)
(*                                                                          *)
(* Every tool handler is an async function: it runs to its next await, is   *)
(* suspended there, and is resumed by the event that settles the awaited    *)
(* promise.  One action of the model is one such run: a handler from its    *)
(* call to its first suspension, or an event (SSH client ready / error /    *)
(* close, exec finished, channel closed, timer fired) together with the     *)
(* continuation it resumes, up to the next suspension.  An await on an      *)
(* already settled promise (a cached connection) does not let any other     *)
(* event in, so the run goes on through it.                                 *)
(***************************************************************************)
EXTENDS Integers, Sequences, FiniteSets, TLC

\* ------------------------------------------------------------------ bounds
MaxChan == 2        \* ManagedNode objects (node channels) ever created
MaxClients == 2     \* ssh2 Client objects ever created
MaxTasks == 2       \* tool handlers in flight at the same time

\* ------------------------------------------------------------------ inputs
Names == {"w1", "w2"}            \* node short names the caller uses
Types == {"erlang", "elixir"}
HostA == "a"                     \* the host label of SSH_HOSTS=a:u@h.example
BadHost == "zz"                  \* a label that is not in SSH_HOSTS
HostArgs == {"", BadHost}        \* the optional `host` argument ("" = absent)
\* the type and the optional `cookie` argument ("" = absent) of a start-node call
StartArgs == {[type |-> "erlang", cookie |-> "c1"], [type |-> "elixir", cookie |-> ""]}
RemoteCookie == "rc"             \* content of ~/.erlang.cookie on the host
FallbackCookie == "mcp_default_cookie"
HostnameS == "h"                 \* stdout of `hostname -s`
HostnameLabel == "h0"            \* hostname.split(".")[0]

Chans == 1..MaxChan
ClientIds == 1..MaxClients
TaskIds == 1..MaxTasks

VARIABLES
  sshHosts,         \* Map label -> [connection, remoteShortHost] (SSHHostConfig)
  SSH_PRIVATE_KEY,  \* TRUE iff the private key string is non-empty
  clients,          \* every ssh2 Client created by getSSHConnection
  nodes,            \* Map name -> reference to a ManagedNode object
  managed,          \* the ManagedNode objects, with the state of their channel
  probes,           \* the setTimeout callback of each inserted ManagedNode
  tasks             \* the tool handlers in flight

\* the server process, the inputs and results of the functions studied on their
\* own, and the topology panel that runs in the browser
VARIABLES
  exit,             \* process.exit: [done, code]
  arg,              \* the argument a function is applied to
  ret,              \* what it returned
  panel             \* the state of the topology panel component

vars == <<sshHosts, SSH_PRIVATE_KEY, clients, nodes, managed, probes, tasks,
          exit, arg, ret, panel>>

\* ------------------------------------------------------------------ values
Running == [done |-> FALSE, code |-> 0]
NoValue == <<>>
NoClient == [st |-> "unused", host |-> "", hn |-> FALSE]
NoEntry == [ref |-> 0, pos |-> 0]
NoManaged == [name |-> "", hostLabel |-> "", remoteShortHost |-> "", type |-> "",
              cookie |-> "", status |-> "none", channel |-> "unused"]
NoProbe == [pc |-> "none", wait |-> 0]
IdleTask == [op |-> "idle", pc |-> "idle", name |-> "", type |-> "", cookie |-> "",
             host |-> "", shortHost |-> "", conn |-> 0, wait |-> 0, node |-> 0,
             lang |-> "", file |-> "none", out |-> <<>>, cur |-> 0, acc |-> <<>>]
NoLast == [op |-> "none", name |-> "", res |-> "none", out |-> <<>>, file |-> "none",
           list |-> <<>>]

\* A run of a handler or of an event callback takes the world it reads and
\* gives the world it leaves, with the outputs of the run: last, what a handler
\* returned to its caller in this run (NoLast when none returned), and io, the
\* SSH calls the run issued.  overflow is set when the run would need a Client
\* or a ManagedNode beyond the bounds; such a step is not taken.
World == [sshHosts |-> sshHosts, key |-> SSH_PRIVATE_KEY, clients |-> clients,
          nodes |-> nodes, managed |-> managed, probes |-> probes, tasks |-> tasks,
          last |-> NoLast, io |-> {}, overflow |-> FALSE]

\* Garbage: a ManagedNode that is no longer in the Map and that no handler holds.
\* Nothing reads its type, cookie, remoteShortHost or status any more (its probe
\* and its close handler read only the name and host label they captured, and
\* look the entry up in the Map), so these fields are cleared.
Held(w, k) == \E n \in Names : w.nodes[n].ref = k
Kept(w, k) == Held(w, k) \/ \E t \in TaskIds : w.tasks[t].node = k
Collect(w) ==
  [k \in Chans |->
     IF w.managed[k].channel = "unused" \/ Kept(w, k) THEN w.managed[k]
     ELSE [w.managed[k] EXCEPT !.type = "", !.cookie = "", !.remoteShortHost = "",
                               !.status = "none"]]

Commit(w) ==
  /\ ~w.overflow
  /\ ~exit.done
  /\ UNCHANGED <<exit, arg, ret, panel>>
  /\ sshHosts' = w.sshHosts
  /\ SSH_PRIVATE_KEY' = w.key
  /\ clients' = w.clients
  /\ nodes' = w.nodes
  /\ managed' = Collect(w)
  /\ probes' = w.probes
  /\ tasks' = w.tasks

Min(S) == CHOOSE x \in S : \A y \in S : x <= y

\* ---------------------------------------------------------- SSH transport
FreeClients(w) == {c \in ClientIds : w.clients[c].st = "unused"}

\* getSSHConnection: st is "resolved" (the cached client), "rejected" (unknown
\* label) or "pending" (a new Client was created and connect() called).
GetSSHConnection(w, hostLabel) ==
  IF hostLabel \notin DOMAIN w.sshHosts
    THEN [w |-> w, st |-> "rejected", conn |-> 0]
  ELSE IF w.sshHosts[hostLabel].connection # 0
    THEN [w |-> w, st |-> "resolved", conn |-> w.sshHosts[hostLabel].connection]
  ELSE IF FreeClients(w) = {}
    THEN [w |-> [w EXCEPT !.overflow = TRUE], st |-> "pending", conn |-> 0]
  ELSE LET c == Min(FreeClients(w))
       IN [w |-> [w EXCEPT !.clients[c] = [st |-> "dialing", host |-> hostLabel, hn |-> FALSE],
                           !.io = @ \cup {"dial"}],
           st |-> "pending", conn |-> c]

\* conn.exec of sshExecSimple and of sshExecLongRunning
ExecSimple(w) == [w EXCEPT !.io = @ \cup {"exec"}]
ExecLongRunning(w) == [w EXCEPT !.io = @ \cup {"stream"}]

\* ------------------------------------------------------------ the handlers
\* the guard refusing only when hosts and key are both missing
ConfigGuard_Both(w) == DOMAIN w.sshHosts = {} /\ ~w.key

ConfigGuard(w) == DOMAIN w.sshHosts = {} \/ ~w.key

GetDefaultHostLabel(w) == IF DOMAIN w.sshHosts = {} THEN "" ELSE HostA

\* A handler returns: its task ends and the result is what the caller sees.
Return(w, t, res) ==
  [w EXCEPT !.last = [op |-> w.tasks[t].op, name |-> w.tasks[t].name, res |-> res,
                      out |-> w.tasks[t].out, file |-> w.tasks[t].file,
                      list |-> w.tasks[t].acc],
            !.tasks[t] = IdleTask]

\* ------------------------------------------------------------- start-node
FreeChans(w) == {k \in Chans : w.managed[k].channel = "unused"}

\* nodes.set(name, node); channel.on("close", ...); setTimeout(probe, 2000); return
StartInsert(w, t) ==
  IF FreeChans(w) = {} THEN [w EXCEPT !.overflow = TRUE]
  ELSE LET k == Min(FreeChans(w))
           tk == w.tasks[t]
           old == w.nodes[tk.name]
           w1 == [w EXCEPT
                    !.managed[k] = [name |-> tk.name, hostLabel |-> tk.host,
                                    remoteShortHost |-> tk.shortHost, type |-> tk.type,
                                    cookie |-> tk.cookie, status |-> "starting",
                                    channel |-> "open"],
                    !.nodes[tk.name] = [ref |-> k,
                                        pos |-> IF old.ref # 0 THEN old.pos ELSE k],
                    !.probes[k] = [pc |-> "timer", wait |-> 0]]
       IN Return(w1, t, "ok")

\* shortHost = hostConfig.remoteShortHost; channel = await sshExecLongRunning(conn, command)
StartSpawn(w, t, cookie) ==
  ExecLongRunning([w EXCEPT !.tasks[t].cookie = cookie,
                            !.tasks[t].shortHost = w.sshHosts[w.tasks[t].host].remoteShortHost,
                            !.tasks[t].pc = "spawn", !.tasks[t].wait = 0])

\* cookie = cookieArg || await defaultCookie(hostLabel)
StartCookie(w, t) ==
  IF w.tasks[t].cookie # "" THEN StartSpawn(w, t, w.tasks[t].cookie)
  ELSE LET g == GetSSHConnection(w, w.tasks[t].host)
       IN CASE g.st = "resolved" ->
                 ExecSimple([g.w EXCEPT !.tasks[t].pc = "cookie", !.tasks[t].wait = 0])
            [] g.st = "pending" ->
                 [g.w EXCEPT !.tasks[t].pc = "cookieDial", !.tasks[t].wait = g.conn]
            [] OTHER -> StartSpawn(g.w, t, FallbackCookie)

\* conn = await getSSHConnection(hostLabel) has settled
StartAfterDial(w, t, ok, c) ==
  IF ok THEN StartCookie([w EXCEPT !.tasks[t].conn = c], t)
  ELSE Return(w, t, "SshDial")

\* defaultCookie: its own getSSHConnection has settled
StartAfterCookieDial(w, t, ok) ==
  IF ok THEN ExecSimple([w EXCEPT !.tasks[t].pc = "cookie", !.tasks[t].wait = 0])
  ELSE StartSpawn(w, t, FallbackCookie)

\* defaultCookie: `cat ~/.erlang.cookie` has settled with stdout out, or failed
StartAfterCookie(w, t, ok, out) ==
  StartSpawn(w, t, IF ok /\ out # "" THEN out ELSE FallbackCookie)

\* a start-node that inserts its entry whether or not the spawn succeeded
StartAfterSpawn_InsertsAnyway(w, t, ok) == StartInsert(w, t)

StartAfterSpawn(w, t, ok) ==
  IF ok THEN StartInsert(w, t) ELSE Return(w, t, "SshSpawn")

\* start-node without `if (nodes.has(name))`
StartNode_NoNameCheck(w, t, name, type, cookieArg, host) ==
  LET w0 == [w EXCEPT !.tasks[t] = [IdleTask EXCEPT !.op = "start-node", !.name = name,
                                      !.type = type, !.cookie = cookieArg]]
      hostLabel == IF host # "" THEN host ELSE GetDefaultHostLabel(w)
  IN IF ConfigGuard(w) THEN Return(w0, t, "ConfigMissing")
     ELSE IF hostLabel \notin DOMAIN w.sshHosts THEN Return(w0, t, "UnknownHost")
     ELSE LET w1 == [w0 EXCEPT !.tasks[t].host = hostLabel]
              g == GetSSHConnection(w1, hostLabel)
          IN CASE g.st = "resolved" -> StartAfterDial(g.w, t, TRUE, g.conn)
               [] g.st = "pending" ->
                    [g.w EXCEPT !.tasks[t].pc = "dial", !.tasks[t].wait = g.conn]
               [] OTHER -> StartAfterDial(g.w, t, FALSE, 0)

\* the handler from its call to its first suspension
StartNode(w, t, name, type, cookieArg, host) ==
  LET w0 == [w EXCEPT !.tasks[t] = [IdleTask EXCEPT !.op = "start-node", !.name = name,
                                      !.type = type, !.cookie = cookieArg]]
      hostLabel == IF host # "" THEN host ELSE GetDefaultHostLabel(w)
  IN IF ConfigGuard(w) THEN Return(w0, t, "ConfigMissing")
     ELSE IF hostLabel \notin DOMAIN w.sshHosts THEN Return(w0, t, "UnknownHost")
     ELSE IF w.nodes[name].ref # 0 THEN Return(w0, t, "NameTaken")
     ELSE LET w1 == [w0 EXCEPT !.tasks[t].host = hostLabel]
              g == GetSSHConnection(w1, hostLabel)
          IN CASE g.st = "resolved" -> StartAfterDial(g.w, t, TRUE, g.conn)
               [] g.st = "pending" ->
                    [g.w EXCEPT !.tasks[t].pc = "dial", !.tasks[t].wait = g.conn]
               [] OTHER -> StartAfterDial(g.w, t, FALSE, 0)

\* -------------------------------------------------------------- stop-node
ChannelClose(w, k) ==
  IF w.managed[k].channel = "open"
    THEN [w EXCEPT !.managed[k].channel = "closing", !.io = @ \cup {"close"}]
    ELSE w

\* stop-node without `nodes.delete(name)`
StopNode_KeepsEntry(w, t, name) ==
  LET w0 == [w EXCEPT !.tasks[t] = [IdleTask EXCEPT !.op = "stop-node", !.name = name]]
      node == w.nodes[name].ref
  IN IF ConfigGuard(w) THEN Return(w0, t, "ConfigMissing")
     ELSE IF node = 0 THEN Return(w0, t, "NodeUnknown")
     ELSE Return(ChannelClose(w0, node), t, "ok")

\* stop-node with `nodes.clear()` in place of `nodes.delete(name)`
StopNode_ClearsAll(w, t, name) ==
  LET w0 == [w EXCEPT !.tasks[t] = [IdleTask EXCEPT !.op = "stop-node", !.name = name]]
      node == w.nodes[name].ref
  IN IF ConfigGuard(w) THEN Return(w0, t, "ConfigMissing")
     ELSE IF node = 0 THEN Return(w0, t, "NodeUnknown")
     ELSE Return([ChannelClose(w0, node) EXCEPT !.nodes = [n \in Names |-> NoEntry]], t, "ok")

StopNode(w, t, name) ==
  LET w0 == [w EXCEPT !.tasks[t] = [IdleTask EXCEPT !.op = "stop-node", !.name = name]]
      node == w.nodes[name].ref
  IN IF ConfigGuard(w) THEN Return(w0, t, "ConfigMissing")
     ELSE IF node = 0 THEN Return(w0, t, "NodeUnknown")
     ELSE Return([ChannelClose(w0, node) EXCEPT !.nodes[name] = NoEntry], t, "ok")

\* ----------------------------------------------------------- restart-node
RestartInsert(w, t) ==
  IF FreeChans(w) = {} THEN [w EXCEPT !.overflow = TRUE]
  ELSE LET k == Min(FreeChans(w))
           tk == w.tasks[t]
           old == w.nodes[tk.name]
           w1 == [w EXCEPT
                    !.managed[k] = [name |-> tk.name, hostLabel |-> tk.host,
                                    remoteShortHost |-> tk.shortHost, type |-> tk.type,
                                    cookie |-> tk.cookie, status |-> "starting",
                                    channel |-> "open"],
                    !.nodes[tk.name] = [ref |-> k,
                                        pos |-> IF old.ref # 0 THEN old.pos ELSE k],
                    !.probes[k] = [pc |-> "timer", wait |-> 0]]
       IN Return(w1, t, "ok")

RestartSpawn(w, t) ==
  ExecLongRunning([w EXCEPT !.tasks[t].shortHost = w.sshHosts[w.tasks[t].host].remoteShortHost,
                            !.tasks[t].pc = "spawn", !.tasks[t].wait = 0])

RestartAfterDial(w, t, ok, c) ==
  IF ok THEN RestartSpawn([w EXCEPT !.tasks[t].conn = c], t)
  ELSE Return(w, t, "SshDial")

\* a restart-node that inserts its entry whether or not the spawn succeeded
RestartAfterSpawn_InsertsAnyway(w, t, ok) == RestartInsert(w, t)

RestartAfterSpawn(w, t, ok) ==
  IF ok THEN RestartInsert(w, t) ELSE Return(w, t, "SshSpawn")

\* restart-node relaunching with the default cookie in place of the entry's
RestartNode_DropsCookie(w, t, name) ==
  LET w0 == [w EXCEPT !.tasks[t] = [IdleTask EXCEPT !.op = "restart-node", !.name = name]]
      node == w.nodes[name].ref
  IN IF ConfigGuard(w) THEN Return(w0, t, "ConfigMissing")
     ELSE IF node = 0 THEN Return(w0, t, "NodeUnknown")
     ELSE IF w.managed[node].hostLabel \notin DOMAIN w.sshHosts
       THEN Return(w0, t, "UnknownHost")
     ELSE LET w1 == [w0 EXCEPT !.tasks[t].host = w.managed[node].hostLabel,
                               !.tasks[t].type = w.managed[node].type,
                               !.tasks[t].cookie = FallbackCookie]
              w2 == [ChannelClose(w1, node) EXCEPT !.nodes[name] = NoEntry]
              g == GetSSHConnection(w2, w1.tasks[t].host)
          IN CASE g.st = "resolved" -> RestartAfterDial(g.w, t, TRUE, g.conn)
               [] g.st = "pending" ->
                    [g.w EXCEPT !.tasks[t].pc = "dial", !.tasks[t].wait = g.conn]
               [] OTHER -> RestartAfterDial(g.w, t, FALSE, 0)

RestartNode(w, t, name) ==
  LET w0 == [w EXCEPT !.tasks[t] = [IdleTask EXCEPT !.op = "restart-node", !.name = name]]
      node == w.nodes[name].ref
  IN IF ConfigGuard(w) THEN Return(w0, t, "ConfigMissing")
     ELSE IF node = 0 THEN Return(w0, t, "NodeUnknown")
     ELSE IF w.managed[node].hostLabel \notin DOMAIN w.sshHosts
       THEN Return(w0, t, "UnknownHost")
     ELSE LET w1 == [w0 EXCEPT !.tasks[t].host = w.managed[node].hostLabel,
                               !.tasks[t].type = w.managed[node].type,
                               !.tasks[t].cookie = w.managed[node].cookie]
              w2 == [ChannelClose(w1, node) EXCEPT !.nodes[name] = NoEntry]
              g == GetSSHConnection(w2, w1.tasks[t].host)
          IN CASE g.st = "resolved" -> RestartAfterDial(g.w, t, TRUE, g.conn)
               [] g.st = "pending" ->
                    [g.w EXCEPT !.tasks[t].pc = "dial", !.tasks[t].wait = g.conn]
               [] OTHER -> RestartAfterDial(g.w, t, FALSE, 0)

\* ------------------------------------------- channel close event and probe
\* a close listener that leaves the entry as it is
OnChannelClose_NoStatus(w, k) == [w EXCEPT !.managed[k].channel = "closed"]

\* a close listener that acts on a running entry only
OnChannelClose_OnlyRunning(w, k) ==
  LET n == w.nodes[w.managed[k].name].ref
      w1 == [w EXCEPT !.managed[k].channel = "closed"]
  IN IF n # 0 /\ w.managed[n].status = "running"
       THEN [w1 EXCEPT !.managed[n].status = "stopped"] ELSE w1

\* channel.on("close"): const n = nodes.get(name); if (n) n.status = "stopped"
OnChannelClose(w, k) ==
  LET n == w.nodes[w.managed[k].name].ref
      w1 == [w EXCEPT !.managed[k].channel = "closed"]
  IN IF n # 0 THEN [w1 EXCEPT !.managed[n].status = "stopped"] ELSE w1

\* a catch block that swallows the failure and leaves the status alone
ProbeCatch_Silent(w, k) == [w EXCEPT !.probes[k] = [pc |-> "done", wait |-> 0]]

\* the catch block of the probe
ProbeCatch(w, k) ==
  LET nn == w.nodes[w.managed[k].name].ref
      w1 == [w EXCEPT !.probes[k] = [pc |-> "done", wait |-> 0]]
  IN IF nn # 0 THEN [w1 EXCEPT !.managed[nn].status = "error"] ELSE w1

\* result = await sshExecSimple(pingConn, pingCmd, 5000)
ProbeExec(w, k) == ExecSimple([w EXCEPT !.probes[k] = [pc |-> "exec", wait |-> 0]])

ProbeAfterDial(w, k, ok) == IF ok THEN ProbeExec(w, k) ELSE ProbeCatch(w, k)

\* the timer fires
ProbeFire(w, k) ==
  LET n == w.nodes[w.managed[k].name].ref
  IN IF n = 0 \/ w.managed[n].status = "stopped"
       THEN [w EXCEPT !.probes[k] = [pc |-> "done", wait |-> 0]]
       ELSE LET g == GetSSHConnection(w, w.managed[k].hostLabel)
            IN CASE g.st = "resolved" -> ProbeExec(g.w, k)
                 [] g.st = "pending" -> [g.w EXCEPT !.probes[k] = [pc |-> "dial", wait |-> g.conn]]
                 [] OTHER -> ProbeCatch(g.w, k)

\* a probe that writes its verdict whatever the entry's status
ProbeResult_AnyStatus(w, k, ok, out) ==
  IF ~ok THEN ProbeCatch(w, k)
  ELSE LET nn == w.nodes[w.managed[k].name].ref
           w1 == [w EXCEPT !.probes[k] = [pc |-> "done", wait |-> 0]]
       IN IF nn # 0
            THEN [w1 EXCEPT !.managed[nn].status = IF out = "pong" THEN "running" ELSE "error"]
            ELSE w1

\* the ping exec settles: ok with stdout out, or rejected (error, timeout)
ProbeResult(w, k, ok, out) ==
  IF ~ok THEN ProbeCatch(w, k)
  ELSE LET nn == w.nodes[w.managed[k].name].ref
           w1 == [w EXCEPT !.probes[k] = [pc |-> "done", wait |-> 0]]
       IN IF nn # 0 /\ w.managed[nn].status = "starting"
            THEN [w1 EXCEPT !.managed[nn].status = IF out = "pong" THEN "running" ELSE "error"]
            ELSE w1


\* ------------------------------------------------------------- RPC helpers
\* What a remote command prints: a text is a sequence of lexemes, a digit being
\* a lexeme of its own.
Sentinel == <<"error", ":", "node_unreachable">>
BadRpc == <<"{badrpc,", "nodedown", "}">>
OkTuple == <<"{ok,", "m", "}">>
ErrorTuple == <<"{error,", "reason", "}">>
Count42 == <<"4", "2">>
DigitVal == ("0" :> 0) @@ ("1" :> 1) @@ ("2" :> 2) @@ ("3" :> 3) @@ ("4" :> 4) @@
            ("5" :> 5) @@ ("6" :> 6) @@ ("7" :> 7) @@ ("8" :> 8) @@ ("9" :> 9)
NaN == -1
Null == -2

\* parseInt(text, 10): the number its leading digits spell, NaN when it has none
RECURSIVE LeadingDigits(_, _)
LeadingDigits(text, acc) ==
  IF text = <<>> \/ Head(text) \notin DOMAIN DigitVal THEN acc
  ELSE LeadingDigits(Tail(text), IF acc = NaN THEN DigitVal[Head(text)]
                                  ELSE 10 * acc + DigitVal[Head(text)])
ParseInt(text) == LeadingDigits(text, NaN)

\* The ephemeral bootstrap node of rpcCall: on pang it prints the sentinel and
\* does not evaluate the expression; on pong it prints the expression's value.
Bootstrap(reachable, value) == IF reachable THEN value ELSE Sentinel

\* rpcCall up to the exec it awaits; thrown when getSSHConnection rejects at once
RpcCall(w, t) ==
  LET g == GetSSHConnection(w, w.tasks[t].host)
  IN CASE g.st = "resolved" ->
            [w |-> ExecSimple([g.w EXCEPT !.tasks[t].pc = "rpc", !.tasks[t].wait = 0]),
             thrown |-> FALSE]
       [] g.st = "pending" ->
            [w |-> [g.w EXCEPT !.tasks[t].pc = "rpcDial", !.tasks[t].wait = g.conn],
             thrown |-> FALSE]
       [] OTHER -> [w |-> g.w, thrown |-> TRUE]

\* rpcRaw up to the exec it awaits
RpcRaw(w, t) ==
  LET g == GetSSHConnection(w, w.tasks[t].host)
  IN CASE g.st = "resolved" ->
            [w |-> ExecSimple([g.w EXCEPT !.tasks[t].pc = "rpc", !.tasks[t].wait = 0]),
             thrown |-> FALSE]
       [] g.st = "pending" ->
            [w |-> [g.w EXCEPT !.tasks[t].pc = "rpcDial", !.tasks[t].wait = g.conn],
             thrown |-> FALSE]
       [] OTHER -> [w |-> g.w, thrown |-> TRUE]

\* rpcCall / rpcRaw: the connection they awaited is there; return sshExecSimple(...)
RpcExec(w, t) == ExecSimple([w EXCEPT !.tasks[t].pc = "rpc", !.tasks[t].wait = 0])

\* const node = nodes.get(name): the handler holds the object and reads its fields
Hold(w, t, node) ==
  [w EXCEPT !.tasks[t].node = node, !.tasks[t].host = w.managed[node].hostLabel,
            !.tasks[t].cookie = w.managed[node].cookie,
            !.tasks[t].type = w.managed[node].type]

\* -------------------------------------------------------------- list-nodes
\* nodeList.push({name, type: node.type, status: node.status, startedAt, processCount})
ListPush(w, t, count) ==
  [w EXCEPT !.tasks[t].acc = Append(@, [name |-> w.tasks[t].name,
                                        status |-> w.managed[w.tasks[t].node].status,
                                        processCount |-> count]),
            !.tasks[t].node = 0]

\* for (const [name, node] of nodes): the Map iterator is live and goes by
\* insertion order; cur is the place of the entry visited last
RECURSIVE ListLoop(_, _)
ListLoop(w, t) ==
  LET rest == {n \in Names : w.nodes[n].ref # 0 /\ w.nodes[n].pos > w.tasks[t].cur}
  IN IF rest = {} THEN Return([w EXCEPT !.tasks[t].name = ""], t, "ok")
     ELSE LET name == CHOOSE n \in rest : \A m \in rest : w.nodes[n].pos <= w.nodes[m].pos
              node == w.nodes[name].ref
              w1 == Hold([w EXCEPT !.tasks[t].cur = w.nodes[name].pos,
                                   !.tasks[t].name = name], t, node)
          IN IF w.managed[node].status = "running"
               THEN LET r == RpcCall(w1, t)
                    IN IF r.thrown THEN ListLoop(ListPush(r.w, t, Null), t) ELSE r.w
               ELSE ListLoop(ListPush(w1, t, Null), t)

ListAfterRpcDial(w, t, ok) ==
  IF ok THEN RpcExec(w, t) ELSE ListLoop(ListPush(w, t, Null), t)

\* list-nodes marking the entry as failed when its count is not a number
ListAfterRpc_FlipsStatus(w, t, ok, out) ==
  LET parsed == IF ok THEN ParseInt(out) ELSE NaN
  IN IF parsed # NaN THEN ListLoop(ListPush(w, t, parsed), t)
     ELSE ListLoop(ListPush([w EXCEPT !.managed[w.tasks[t].node].status = "error"],
                            t, Null), t)

ListAfterRpc(w, t, ok, out) ==
  LET parsed == IF ok THEN ParseInt(out) ELSE NaN
  IN ListLoop(ListPush(w, t, IF parsed # NaN THEN parsed ELSE Null), t)

ListNodes(w, t) ==
  LET w0 == [w EXCEPT !.tasks[t] = [IdleTask EXCEPT !.op = "list-nodes"]]
  IN IF ConfigGuard(w) THEN Return(w0, t, "ConfigMissing")
     ELSE ListLoop(w0, t)

\* ------------------------------------------------------------ inspect-node
InspectAfterRpcDial(w, t, ok) ==
  IF ok THEN RpcExec(w, t) ELSE Return(w, t, "Failed")

\* an inspect-node that marks the node as failed when its evaluation fails
InspectAfterRpc_MarksError(w, t, ok, out) ==
  IF ok THEN Return([w EXCEPT !.tasks[t].out = out], t, "ok")
  ELSE Return([w EXCEPT !.managed[w.tasks[t].node].status = "error"], t, "Failed")

InspectAfterRpc(w, t, ok, out) ==
  IF ok THEN Return([w EXCEPT !.tasks[t].out = out], t, "ok")
  ELSE Return(w, t, "Failed")

InspectNode(w, t, name) ==
  LET w0 == [w EXCEPT !.tasks[t] = [IdleTask EXCEPT !.op = "inspect-node", !.name = name]]
      node == w.nodes[name].ref
  IN IF ConfigGuard(w) THEN Return(w0, t, "ConfigMissing")
     ELSE IF node = 0 THEN Return(w0, t, "NodeUnknown")
     ELSE IF w.managed[node].status # "running" THEN Return(w0, t, "NodeBadState")
     ELSE LET r == RpcRaw(Hold(w0, t, node), t)
          IN IF r.thrown THEN Return(r.w, t, "Failed") ELSE r.w

\* ----------------------------------------------------------- deploy-module
\* The expression deploy-module evaluates on the target: the value it returns
\* and whether it got to call file:delete.  Erlang: a failed code:load_binary is
\* a badmatch that exits the fun before file:delete; Elixir: try ... catch.
DeployExpr(lang, remote) ==
  IF lang = "erlang"
    THEN CASE remote = "loads" -> [value |-> OkTuple, deleted |-> TRUE]
           [] remote = "compile_error" -> [value |-> ErrorTuple, deleted |-> TRUE]
           [] OTHER -> [value |-> BadRpc, deleted |-> FALSE]
    ELSE CASE remote = "loads" -> [value |-> OkTuple, deleted |-> TRUE]
           [] OTHER -> [value |-> ErrorTuple, deleted |-> TRUE]

\* the catch block: attempt cleanup on SSH-level failure, then return the error
DeployCleanup(w, t) ==
  LET w1 == [w EXCEPT !.tasks[t].file = "cleanup"]
      g == GetSSHConnection(w1, w.tasks[t].host)
  IN CASE g.st = "resolved" ->
            ExecSimple([g.w EXCEPT !.tasks[t].pc = "rm", !.tasks[t].wait = 0])
       [] g.st = "pending" ->
            [g.w EXCEPT !.tasks[t].pc = "rmDial", !.tasks[t].wait = g.conn]
       [] OTHER -> Return(g.w, t, "Failed")

DeployAfterRmDial(w, t, ok) ==
  IF ok THEN ExecSimple([w EXCEPT !.tasks[t].pc = "rm", !.tasks[t].wait = 0])
  ELSE Return(w, t, "Failed")

DeployAfterRm(w, t) == Return(w, t, "Failed")

DeployAfterRpcDial(w, t, ok) ==
  IF ok THEN RpcExec(w, t) ELSE DeployCleanup(w, t)

\* rpcCall settled: ok with stdout out after a run in which the expression did
\* (deleted) or did not call file:delete, or rejected
DeployAfterRpc(w, t, ok, out, deleted) ==
  IF ok THEN Return([w EXCEPT !.tasks[t].out = out,
                              !.tasks[t].file = IF deleted THEN "deleted" ELSE "present"],
                    t, "ok")
  ELSE DeployCleanup(w, t)

\* sshWriteFile settled
DeployAfterUpload(w, t, ok) ==
  IF ~ok THEN Return(w, t, "Failed")
  ELSE LET r == RpcCall([w EXCEPT !.tasks[t].file = "present"], t)
       IN IF r.thrown THEN DeployCleanup(r.w, t) ELSE r.w

DeployAfterUpDial(w, t, ok) ==
  IF ok THEN ExecSimple([w EXCEPT !.tasks[t].pc = "upload", !.tasks[t].wait = 0])
  ELSE Return(w, t, "Failed")

\* deploy-module without the status check
DeployModule_AnyStatus(w, t, name, language) ==
  LET w0 == [w EXCEPT !.tasks[t] = [IdleTask EXCEPT !.op = "deploy-module", !.name = name,
                                      !.lang = language]]
      node == w.nodes[name].ref
  IN IF ConfigGuard(w) THEN Return(w0, t, "ConfigMissing")
     ELSE IF node = 0 THEN Return(w0, t, "NodeUnknown")
     ELSE LET w1 == Hold(w0, t, node)
              g == GetSSHConnection(w1, w1.tasks[t].host)
          IN CASE g.st = "resolved" ->
                    ExecSimple([g.w EXCEPT !.tasks[t].pc = "upload", !.tasks[t].wait = 0])
               [] g.st = "pending" ->
                    [g.w EXCEPT !.tasks[t].pc = "upDial", !.tasks[t].wait = g.conn]
               [] OTHER -> Return(g.w, t, "Failed")

DeployModule(w, t, name, language) ==
  LET w0 == [w EXCEPT !.tasks[t] = [IdleTask EXCEPT !.op = "deploy-module", !.name = name,
                                      !.lang = language]]
      node == w.nodes[name].ref
  IN IF ConfigGuard(w) THEN Return(w0, t, "ConfigMissing")
     ELSE IF node = 0 THEN Return(w0, t, "NodeUnknown")
     ELSE IF w.managed[node].status # "running" THEN Return(w0, t, "NodeBadState")
     ELSE LET w1 == Hold(w0, t, node)
              g == GetSSHConnection(w1, w1.tasks[t].host)
          IN CASE g.st = "resolved" ->
                    ExecSimple([g.w EXCEPT !.tasks[t].pc = "upload", !.tasks[t].wait = 0])
               [] g.st = "pending" ->
                    [g.w EXCEPT !.tasks[t].pc = "upDial", !.tasks[t].wait = g.conn]
               [] OTHER -> Return(g.w, t, "Failed")

\* ------------------------------------------------------ gen-server handlers
StartGenserverAfterRpcDial(w, t, ok) ==
  IF ok THEN RpcExec(w, t) ELSE Return(w, t, "Failed")

StartGenserverAfterRpc(w, t, ok, out) ==
  IF ok THEN Return([w EXCEPT !.tasks[t].out = out], t, "ok")
  ELSE Return(w, t, "Failed")

StartGenserver(w, t, name) ==
  LET w0 == [w EXCEPT !.tasks[t] = [IdleTask EXCEPT !.op = "start-genserver", !.name = name]]
      node == w.nodes[name].ref
  IN IF ConfigGuard(w) THEN Return(w0, t, "ConfigMissing")
     ELSE IF node = 0 THEN Return(w0, t, "NodeUnknown")
     ELSE IF w.managed[node].status # "running" THEN Return(w0, t, "NodeBadState")
     ELSE LET r == RpcCall(Hold(w0, t, node), t)
          IN IF r.thrown THEN Return(r.w, t, "Failed") ELSE r.w

CallGenserverAfterRpcDial(w, t, ok) ==
  IF ok THEN RpcExec(w, t) ELSE Return(w, t, "Failed")

CallGenserverAfterRpc(w, t, ok, out) ==
  IF ok THEN Return([w EXCEPT !.tasks[t].out = out], t, "ok")
  ELSE Return(w, t, "Failed")

\* call-genserver testing `node?.status !== "running"` before the lookup result
CallGenserver_StatusFirst(w, t, name) ==
  LET w0 == [w EXCEPT !.tasks[t] = [IdleTask EXCEPT !.op = "call-genserver", !.name = name]]
      node == w.nodes[name].ref
  IN IF ConfigGuard(w) THEN Return(w0, t, "ConfigMissing")
     ELSE IF node = 0 \/ w.managed[node].status # "running"
       THEN Return(w0, t, "NodeBadState")
     ELSE LET r == RpcCall(Hold(w0, t, node), t)
          IN IF r.thrown THEN Return(r.w, t, "Failed") ELSE r.w

CallGenserver(w, t, name) ==
  LET w0 == [w EXCEPT !.tasks[t] = [IdleTask EXCEPT !.op = "call-genserver", !.name = name]]
      node == w.nodes[name].ref
  IN IF ConfigGuard(w) THEN Return(w0, t, "ConfigMissing")
     ELSE IF node = 0 THEN Return(w0, t, "NodeUnknown")
     ELSE IF w.managed[node].status # "running" THEN Return(w0, t, "NodeBadState")
     ELSE LET r == RpcCall(Hold(w0, t, node), t)
          IN IF r.thrown THEN Return(r.w, t, "Failed") ELSE r.w

StopGenserverAfterRpcDial(w, t, ok) ==
  IF ok THEN RpcExec(w, t) ELSE Return(w, t, "Failed")

StopGenserverAfterRpc(w, t, ok, out) ==
  IF ok THEN Return([w EXCEPT !.tasks[t].out = out], t, "ok")
  ELSE Return(w, t, "Failed")

StopGenserver(w, t, name) ==
  LET w0 == [w EXCEPT !.tasks[t] = [IdleTask EXCEPT !.op = "stop-genserver", !.name = name]]
      node == w.nodes[name].ref
  IN IF ConfigGuard(w) THEN Return(w0, t, "ConfigMissing")
     ELSE IF node = 0 THEN Return(w0, t, "NodeUnknown")
     ELSE IF w.managed[node].status # "running" THEN Return(w0, t, "NodeBadState")
     ELSE LET r == RpcCall(Hold(w0, t, node), t)
          IN IF r.thrown THEN Return(r.w, t, "Failed") ELSE r.w

\* ------------------------------------------------ SSH client event handlers
TaskWaiters(w, c) == {t \in TaskIds : w.tasks[t].wait = c}
ProbeWaiters(w, c) == {k \in Chans : w.probes[k].wait = c}

\* the continuation of the handler that awaits getSSHConnection
TaskAfterConn(w, t, ok, c) ==
  LET tk == w.tasks[t]
  IN CASE tk.op = "start-node" /\ tk.pc = "dial" -> StartAfterDial(w, t, ok, c)
       [] tk.op = "start-node" /\ tk.pc = "cookieDial" -> StartAfterCookieDial(w, t, ok)
       [] tk.op = "restart-node" /\ tk.pc = "dial" -> RestartAfterDial(w, t, ok, c)
       [] tk.op = "list-nodes" /\ tk.pc = "rpcDial" -> ListAfterRpcDial(w, t, ok)
       [] tk.op = "inspect-node" /\ tk.pc = "rpcDial" -> InspectAfterRpcDial(w, t, ok)
       [] tk.op = "deploy-module" /\ tk.pc = "upDial" -> DeployAfterUpDial(w, t, ok)
       [] tk.op = "deploy-module" /\ tk.pc = "rpcDial" -> DeployAfterRpcDial(w, t, ok)
       [] tk.op = "deploy-module" /\ tk.pc = "rmDial" -> DeployAfterRmDial(w, t, ok)
       [] tk.op = "start-genserver" /\ tk.pc = "rpcDial" -> StartGenserverAfterRpcDial(w, t, ok)
       [] tk.op = "call-genserver" /\ tk.pc = "rpcDial" -> CallGenserverAfterRpcDial(w, t, ok)
       [] tk.op = "stop-genserver" /\ tk.pc = "rpcDial" -> StopGenserverAfterRpcDial(w, t, ok)
       [] OTHER -> w

\* resolve(conn) / reject(err) of the promise getSSHConnection returned for c
SettleConn(w, c, ok) ==
  IF TaskWaiters(w, c) # {} THEN TaskAfterConn(w, Min(TaskWaiters(w, c)), ok, c)
  ELSE IF ProbeWaiters(w, c) # {} THEN ProbeAfterDial(w, Min(ProbeWaiters(w, c)), ok)
  ELSE w

\* conn.on("ready"): cache the client, probe `hostname -s` when none is cached
OnReady(w, c) ==
  LET h == w.clients[c].host
      w1 == [w EXCEPT !.sshHosts[h].connection = c, !.clients[c].st = "up"]
  IN IF w.sshHosts[h].remoteShortHost = ""
       THEN ExecSimple([w1 EXCEPT !.clients[c].hn = TRUE])
       ELSE SettleConn(w1, c, TRUE)

\* the `hostname -s` exec settles; then resolve(conn)
OnHostname(w, c, ok, out) ==
  LET h == w.clients[c].host
      w1 == [w EXCEPT !.sshHosts[h].remoteShortHost = IF ok THEN out ELSE HostnameLabel,
                      !.clients[c].hn = FALSE]
  IN SettleConn(w1, c, TRUE)

\* conn.on("error") of a client that never got ready, with the close that follows
OnError(w, c) ==
  LET h == w.clients[c].host
  IN SettleConn([w EXCEPT !.sshHosts[h].connection = 0, !.clients[c].st = "closed"], c, FALSE)

\* conn.on("close") (and "error") of a client that was ready
OnClose(w, c) ==
  LET h == w.clients[c].host
  IN [w EXCEPT !.sshHosts[h].connection = 0, !.clients[c].st = "closed"]

\* ----------------------------------------------------------------- actions
IdleTasks == {t \in TaskIds : tasks[t] = IdleTask}

\* a handler can be called while fewer than conc handlers are in flight
Room(conc) == Cardinality(TaskIds \ IdleTasks) < conc

\* A tool call arrives and its handler runs to its first suspension.  NS are the
\* node names and conc the number of concurrent calls the caller uses.
CallStartNode(NS, conc) ==
  \E name \in NS, a \in StartArgs, host \in HostArgs :
    /\ Room(conc)
    /\ Commit(StartNode(World, Min(IdleTasks), name, a.type, a.cookie, host))

CallStopNode(NS, conc) ==
  \E name \in NS :
    /\ Room(conc)
    /\ Commit(StopNode(World, Min(IdleTasks), name))

CallRestartNode(NS, conc) ==
  \E name \in NS :
    /\ Room(conc)
    /\ Commit(RestartNode(World, Min(IdleTasks), name))

CallListNodes(conc) ==
  /\ Room(conc)
  /\ Commit(ListNodes(World, Min(IdleTasks)))

CallInspectNode(NS, conc) ==
  \E name \in NS :
    /\ Room(conc)
    /\ Commit(InspectNode(World, Min(IdleTasks), name))

CallDeployModule(NS, conc) ==
  \E name \in NS, language \in Types :
    /\ Room(conc)
    /\ Commit(DeployModule(World, Min(IdleTasks), name, language))

CallStartGenserver(NS, conc) ==
  \E name \in NS :
    /\ Room(conc)
    /\ Commit(StartGenserver(World, Min(IdleTasks), name))

CallCallGenserver(NS, conc) ==
  \E name \in NS :
    /\ Room(conc)
    /\ Commit(CallGenserver(World, Min(IdleTasks), name))

CallStopGenserver(NS, conc) ==
  \E name \in NS :
    /\ Room(conc)
    /\ Commit(StopGenserver(World, Min(IdleTasks), name))

\* events of an ssh2 Client
ClientReady ==
  \E c \in ClientIds : clients[c].st = "dialing" /\ Commit(OnReady(World, c))

ClientError ==
  \E c \in ClientIds : clients[c].st = "dialing" /\ Commit(OnError(World, c))

ClientClose ==
  \E c \in ClientIds : clients[c].st = "up" /\ Commit(OnClose(World, c))

\* `hostname -s` settles: with its stdout, with none, or rejected
HostnameDone ==
  \E c \in ClientIds, ok \in BOOLEAN, out \in {HostnameS, ""} :
    /\ clients[c].hn
    /\ ~ok => out = ""
    /\ Commit(OnHostname(World, c, ok, out))

\* `hostname -s` settles with the host's short name
HostnameOk ==
  \E c \in ClientIds : clients[c].hn /\ Commit(OnHostname(World, c, TRUE, HostnameS))

\* execs a handler awaits
CookieDone ==
  \E t \in TaskIds, ok \in BOOLEAN, out \in {RemoteCookie, ""} :
    /\ tasks[t].op = "start-node" /\ tasks[t].pc = "cookie"
    /\ ~ok => out = ""
    /\ Commit(StartAfterCookie(World, t, ok, out))

\* the exec callback of sshExecLongRunning: a channel, or an error
SpawnDone ==
  \E t \in TaskIds, ok \in BOOLEAN :
    /\ tasks[t].pc = "spawn"
    /\ ok => clients[tasks[t].conn].st = "up"
    /\ Commit(IF tasks[t].op = "start-node" THEN StartAfterSpawn(World, t, ok)
                                             ELSE RestartAfterSpawn(World, t, ok))

\* the exec of rpcCall / rpcRaw settles: the bootstrap printed the value or the
\* sentinel and the session closed (ok), or the exec failed or timed out
RpcDone ==
  \E t \in TaskIds, ok \in BOOLEAN, reachable \in BOOLEAN :
    /\ tasks[t].pc = "rpc"
    /\ tasks[t].op \in {"inspect-node", "start-genserver", "call-genserver", "stop-genserver"}
    /\ ~ok => reachable
    /\ LET out == Bootstrap(reachable, OkTuple)
       IN Commit(CASE tasks[t].op = "inspect-node" -> InspectAfterRpc(World, t, ok, out)
                   [] tasks[t].op = "start-genserver" -> StartGenserverAfterRpc(World, t, ok, out)
                   [] tasks[t].op = "call-genserver" -> CallGenserverAfterRpc(World, t, ok, out)
                   [] OTHER -> StopGenserverAfterRpc(World, t, ok, out))

ListRpcDone ==
  \E t \in TaskIds, ok \in BOOLEAN, reachable \in BOOLEAN, value \in {Count42, BadRpc} :
    /\ tasks[t].pc = "rpc" /\ tasks[t].op = "list-nodes"
    /\ ~ok => reachable /\ value = BadRpc
    /\ Commit(ListAfterRpc(World, t, ok, Bootstrap(reachable, value)))

UploadDone ==
  \E t \in TaskIds, ok \in BOOLEAN :
    /\ tasks[t].pc = "upload"
    /\ Commit(DeployAfterUpload(World, t, ok))

\* the compile-and-load rpcCall of deploy-module settles
DeployRpcDone ==
  \E t \in TaskIds, ok \in BOOLEAN, reachable \in BOOLEAN,
     remote \in {"loads", "compile_error", "load_error"} :
    /\ tasks[t].pc = "rpc" /\ tasks[t].op = "deploy-module"
    /\ ~ok => reachable /\ remote = "loads"
    /\ LET r == DeployExpr(tasks[t].lang, remote)
       IN Commit(DeployAfterRpc(World, t, ok, Bootstrap(reachable, r.value),
                                reachable /\ r.deleted))

\* the `rm -f` of the cleanup settles, either way
RmDone ==
  \E t \in TaskIds : tasks[t].pc = "rm" /\ Commit(DeployAfterRm(World, t))

\* the node channel emits close: the remote process exited, or close() was called
ChannelClosed ==
  \E k \in Chans :
    /\ managed[k].channel \in {"open", "closing"}
    /\ Commit(OnChannelClose(World, k))

\* the 2 s timer of a probe fires; its ping exec settles
ProbeTimer ==
  \E k \in Chans : probes[k].pc = "timer" /\ Commit(ProbeFire(World, k))

ProbeDone ==
  \E k \in Chans, ok \in BOOLEAN, out \in {"pong", "pang"} :
    /\ probes[k].pc = "exec"
    /\ ~ok => out = "pang"
    /\ Commit(ProbeResult(World, k, ok, out))

\* ----------------------------------------------------------- specification
Init ==
  /\ sshHosts = [l \in {HostA} |-> [connection |-> 0, remoteShortHost |-> ""]]
  /\ SSH_PRIVATE_KEY = TRUE
  /\ clients = [c \in ClientIds |-> NoClient]
  /\ nodes = [n \in Names |-> NoEntry]
  /\ managed = [k \in Chans |-> NoManaged]
  /\ probes = [k \in Chans |-> NoProbe]
  /\ tasks = [t \in TaskIds |-> IdleTask]
  /\ exit = Running
  /\ arg = NoValue /\ ret = NoValue /\ panel = NoValue

\* Node lifecycle: start, stop and restart of one name by concurrent callers,
\* with every event of the SSH clients, channels and probes.
Next ==
  \/ CallStartNode({"w1"}, MaxTasks)
  \/ CallStopNode({"w1"}, MaxTasks)
  \/ CallRestartNode({"w1"}, MaxTasks)
  \/ ClientReady
  \/ ClientError
  \/ ClientClose
  \/ HostnameOk
  \/ CookieDone
  \/ SpawnDone
  \/ ChannelClosed
  \/ ProbeTimer
  \/ ProbeDone

Spec == Init /\ [][Next]_vars

\* Every tool on two names, one call at a time, with every event.
NextOps ==
  \/ CallStartNode(Names, 1)
  \/ CallStopNode(Names, 1)
  \/ CallRestartNode(Names, 1)
  \/ CallListNodes(1)
  \/ CallInspectNode(Names, 1)
  \/ CallDeployModule(Names, 1)
  \/ CallStartGenserver(Names, 1)
  \/ CallCallGenserver(Names, 1)
  \/ CallStopGenserver(Names, 1)
  \/ ClientReady
  \/ ClientError
  \/ ClientClose
  \/ HostnameOk
  \/ CookieDone
  \/ SpawnDone
  \/ RpcDone
  \/ ListRpcDone
  \/ UploadDone
  \/ DeployRpcDone
  \/ RmDone
  \/ ChannelClosed
  \/ ProbeTimer
  \/ ProbeDone

SpecOps == Init /\ [][NextOps]_vars

\* Start and stop of one name, one call at a time, with every event.
NextSeq ==
  \/ CallStartNode({"w1"}, 1)
  \/ CallStopNode({"w1"}, 1)
  \/ ClientReady
  \/ ClientError
  \/ ClientClose
  \/ HostnameOk
  \/ CookieDone
  \/ SpawnDone
  \/ ChannelClosed
  \/ ProbeTimer
  \/ ProbeDone

SpecSeq == Init /\ [][NextSeq]_vars

\* ------------------------------------------------------------------ claims
\* The task that runs the next call, and the world the next state holds after a
\* run that left w.
FreeTask == Min(IdleTasks)
After(w) == [w EXCEPT !.managed = Collect(w), !.last = NoLast, !.io = {}]

\* the run left every object of the program as it found it
Untouched(w) ==
  /\ ~w.overflow
  /\ w.sshHosts = sshHosts /\ w.clients = clients /\ w.nodes = nodes
  /\ w.managed = managed /\ w.probes = probes /\ w.tasks = tasks

Launched(n) == {k \in Chans : managed[k].name = n /\ managed[k].channel = "open"}

\* C1: two start-node calls for one name that overlap launch one node only:
\* at any time at most one launched node process (a ManagedNode whose channel is
\* open) exists under a name, the one the second call was refused for.
C1_OneNodePerName ==
  \A n \in Names : Cardinality(Launched(n)) <= 1

\* C2 as claimed: start-node on a name the registry holds returns NameTaken,
\* issues no SSH call and leaves registry and entries as they were, whatever its
\* other arguments.
C2_NameTakenAlways ==
  \A n \in Names, a \in StartArgs, host \in HostArgs :
    (IdleTasks # {} /\ nodes[n].ref # 0) =>
      LET w == StartNode(World, FreeTask, n, a.type, a.cookie, host)
      IN w.last.res = "NameTaken" /\ w.io = {} /\ Untouched(w)

\* C2 amended: start-node on a name the registry holds is rejected with no SSH
\* call and nothing changed; the error is NameTaken when the host label is a
\* configured one (or defaulted), and the unknown-host error otherwise.
C2_NameTaken ==
  \A n \in Names, a \in StartArgs, host \in HostArgs :
    (IdleTasks # {} /\ nodes[n].ref # 0) =>
      LET w == StartNode(World, FreeTask, n, a.type, a.cookie, host)
      IN /\ w.last.op = "start-node"
         /\ w.last.res = IF host = BadHost THEN "UnknownHost" ELSE "NameTaken"
         /\ w.io = {}
         /\ Untouched(w)

C2_Witness ==
  \E n \in Names :
    /\ IdleTasks # {} /\ nodes[n].ref # 0
    /\ managed[nodes[n].ref].status = "stopped"
    /\ StartNode(World, FreeTask, n, "erlang", "c1", "").last.res = "NameTaken"

\* C3: stop-node on an existing entry returns in the same run, having called
\* close on the entry's channel and removed the entry; in the state it leaves, a
\* second stop-node returns NodeUnknown and a start-node is not refused as
\* already existing.
C3_StopFreesName ==
  \A n \in Names :
    (IdleTasks # {} /\ nodes[n].ref # 0) =>
      LET k == nodes[n].ref
          w == StopNode(World, FreeTask, n)
          w2 == After(w)
      IN /\ w.last.op = "stop-node" /\ w.last.res = "ok"
         /\ w.tasks = tasks
         /\ w.nodes[n] = NoEntry
         /\ w.managed[k].channel # "open"
         /\ (managed[k].channel = "open" => "close" \in w.io)
         /\ StopNode(w2, FreeTask, n).last.res = "NodeUnknown"
         /\ \A a \in StartArgs :
              StartNode(w2, FreeTask, n, a.type, a.cookie, "").last.res # "NameTaken"

C3_Witness ==
  \E n \in Names :
    /\ IdleTasks # {} /\ nodes[n].ref # 0
    /\ managed[nodes[n].ref].status = "running"
    /\ managed[nodes[n].ref].channel = "open"
    /\ LET w == StopNode(World, FreeTask, n)
       IN /\ w.nodes[n] = NoEntry
          /\ w.managed[nodes[n].ref].channel = "closing"
          /\ StopNode(After(w), FreeTask, n).last.res = "NodeUnknown"

\* the handlers that target an existing node by name, each run by task t
ByName(w, t, n) ==
  {StopNode(w, t, n), RestartNode(w, t, n), InspectNode(w, t, n),
   StartGenserver(w, t, n), CallGenserver(w, t, n), StopGenserver(w, t, n)}
     \cup {DeployModule(w, t, n, l) : l \in Types}

\* the handlers that need a running node
NeedRunning(w, t, n) ==
  {InspectNode(w, t, n), StartGenserver(w, t, n), CallGenserver(w, t, n),
   StopGenserver(w, t, n)} \cup {DeployModule(w, t, n, l) : l \in Types}

\* C4: every operation that targets a node by name returns NodeUnknown when the
\* registry has no entry for the name, issues no SSH call and changes nothing.
C4_NodeUnknown ==
  \A n \in Names :
    (IdleTasks # {} /\ nodes[n].ref = 0) =>
      \A w \in ByName(World, FreeTask, n) :
        w.last.res = "NodeUnknown" /\ w.last.name = n /\ w.io = {} /\ Untouched(w)

C4_Witness ==
  \E n \in Names, k \in Chans :
    /\ IdleTasks # {} /\ nodes[n].ref = 0
    /\ managed[k].name = n /\ managed[k].channel = "closing"
    /\ \A w \in ByName(World, FreeTask, n) : w.last.res = "NodeUnknown"

\* C5: every operation that needs a running node returns NodeBadState when the
\* entry's status is starting, error or stopped, and issues no SSH call.
C5_NodeBadState ==
  \A n \in Names :
    (IdleTasks # {} /\ nodes[n].ref # 0 /\ managed[nodes[n].ref].status # "running") =>
      \A w \in NeedRunning(World, FreeTask, n) :
        w.last.res = "NodeBadState" /\ w.last.name = n /\ w.io = {} /\ Untouched(w)

C5_Witness ==
  \E n \in Names :
    /\ IdleTasks # {} /\ nodes[n].ref # 0
    /\ managed[nodes[n].ref].status = "error"
    /\ \A w \in NeedRunning(World, FreeTask, n) : w.last.res = "NodeBadState"

\* two runs left the same objects and gave their callers the same result; the
\* tool name task t carries is not compared
Alike(r, s, t) ==
  /\ r.overflow = s.overflow
  /\ r.sshHosts = s.sshHosts /\ r.clients = s.clients /\ r.nodes = s.nodes
  /\ Collect(r) = Collect(s) /\ r.probes = s.probes
  /\ [r.tasks EXCEPT ![t].op = IF @ = "idle" THEN @ ELSE "x"]
       = [s.tasks EXCEPT ![t].op = IF @ = "idle" THEN @ ELSE "x"]
  /\ r.last.res = s.last.res /\ r.last.name = s.last.name

AsStart(t) == [World EXCEPT !.tasks[t].op = "start-node"]

\* C6: restart-node equals stop-node followed by start-node with the entry's
\* host label, type and cookie.  From every state with the entry, the run of
\* restart-node up to its first suspension leaves what the two runs leave and
\* issues their SSH calls (the close of the old channel among them); and each
\* continuation of a restart in flight, for either outcome of the connect and of
\* the spawn, leaves what the continuation of a start-node in the same place
\* leaves: same entry, same new channel, same probe.
C6_RestartIsStopStart ==
  /\ \A n \in Names :
       (IdleTasks # {} /\ nodes[n].ref # 0) =>
         LET e == managed[nodes[n].ref]
             t == FreeTask
             r == RestartNode(World, t, n)
             s1 == StopNode(World, t, n)
             s == StartNode(After(s1), t, n, e.type, e.cookie, e.hostLabel)
         IN Alike(r, s, t) /\ r.io = s1.io \cup s.io
  /\ \A t \in TaskIds, ok \in BOOLEAN :
       (tasks[t].op = "restart-node" /\ tasks[t].pc = "dial") =>
         LET r == TaskAfterConn(World, t, ok, tasks[t].wait)
             s == TaskAfterConn(AsStart(t), t, ok, tasks[t].wait)
         IN Alike(r, s, t) /\ r.io = s.io
  /\ \A t \in TaskIds, ok \in BOOLEAN :
       (tasks[t].op = "restart-node" /\ tasks[t].pc = "spawn") =>
         LET r == RestartAfterSpawn(World, t, ok)
             s == StartAfterSpawn(AsStart(t), t, ok)
         IN Alike(r, s, t) /\ r.io = s.io

C6_Witness ==
  \E t \in TaskIds, k \in Chans :
    /\ tasks[t].op = "restart-node" /\ tasks[t].pc = "spawn"
    /\ managed[k].name = tasks[t].name /\ managed[k].channel = "closing"
    /\ nodes[tasks[t].name].ref = 0
    /\ RestartAfterSpawn(World, t, TRUE).nodes[tasks[t].name].ref # 0

\* what a registry shows of an entry after a single start: it is stopped only
\* once its own channel has closed, and running or in error only once its own
\* probe has run
OwnEvolution(k) ==
  /\ managed[k].status = "stopped" => managed[k].channel = "closed"
  /\ managed[k].status \in {"running", "error"} => probes[k].pc = "done"

\* while a name has been started once only, its entry evolves so
SingleStart == managed[2].channel = "unused" => \A n \in Names :
                 nodes[n].ref # 0 => OwnEvolution(nodes[n].ref)

\* C7: after start, stop, start of one name the entry evolves as the entry of a
\* single start does, whenever the close event and the probe timer of the first
\* incarnation arrive.
C7_SecondStartAsFirst ==
  \A n \in Names : nodes[n].ref # 0 => OwnEvolution(nodes[n].ref)

\* a run of list-nodes left the registry and every entry as they were
ListFrame(w) == w.nodes = nodes /\ w.managed = managed /\ w.probes = probes

\* the entry for which the loop of list-nodes called rpcCall in this run, if it
\* did, has status running
ListQueries(w, t) ==
  w.tasks[t].pc \in {"rpc", "rpcDial"} => managed[w.tasks[t].node].status = "running"

\* the record list-nodes adds for the entry it was querying
Reported(w, t) ==
  LET list == IF w.tasks[t] = IdleTask THEN w.last.list ELSE w.tasks[t].acc
  IN list[Len(tasks[t].acc) + 1]

\* C8: no run of list-nodes changes, adds or removes an entry; its loop calls
\* rpcCall for entries whose status is running only; an entry whose RPC fails,
\* times out or prints something that is not a number is reported with
\* processCount null and the status the entry has.
C8_ListNodesFrame ==
  /\ IdleTasks # {} =>
       LET w == ListNodes(World, FreeTask)
       IN ListFrame(w) /\ ListQueries(w, FreeTask)
  /\ \A t \in TaskIds, ok \in BOOLEAN :
       (tasks[t].op = "list-nodes" /\ tasks[t].pc = "rpcDial") =>
         LET w == ListAfterRpcDial(World, t, ok)
         IN /\ ListFrame(w)
            /\ ~ok => /\ ListQueries(w, t)
                      /\ Reported(w, t) = [name |-> tasks[t].name,
                                           status |-> managed[tasks[t].node].status,
                                           processCount |-> Null]
  /\ \A t \in TaskIds, ok \in BOOLEAN, reachable \in BOOLEAN, value \in {Count42, BadRpc} :
       (tasks[t].op = "list-nodes" /\ tasks[t].pc = "rpc") =>
         LET out == Bootstrap(reachable, value)
             w == ListAfterRpc(World, t, ok, out)
         IN /\ ListFrame(w) /\ ListQueries(w, t)
            /\ Reported(w, t) = [name |-> tasks[t].name,
                                 status |-> managed[tasks[t].node].status,
                                 processCount |-> IF ok /\ reachable /\ value = Count42
                                                    THEN 42 ELSE Null]

C8_Witness ==
  \E t \in TaskIds :
    /\ tasks[t].op = "list-nodes" /\ tasks[t].pc = "rpc"
    /\ Len(tasks[t].acc) = 1
    /\ managed[tasks[t].node].status = "running"
    /\ Reported(ListAfterRpc(World, t, TRUE, Sentinel), t).processCount = Null

\* the continuation of the handler whose rpcCall / rpcRaw resolved with out
AfterRpcResolved(w, t, out) ==
  CASE w.tasks[t].op = "inspect-node" -> InspectAfterRpc(w, t, TRUE, out)
    [] w.tasks[t].op = "deploy-module" -> DeployAfterRpc(w, t, TRUE, out, FALSE)
    [] w.tasks[t].op = "start-genserver" -> StartGenserverAfterRpc(w, t, TRUE, out)
    [] w.tasks[t].op = "call-genserver" -> CallGenserverAfterRpc(w, t, TRUE, out)
    [] OTHER -> StopGenserverAfterRpc(w, t, TRUE, out)

\* C9: when the bootstrap prints the sentinel, inspect, deploy and the
\* gen-server operations return an error result, not a success result.
C9_UnreachableIsError ==
  \A t \in TaskIds :
    (/\ tasks[t].pc = "rpc"
     /\ tasks[t].op \in {"inspect-node", "deploy-module", "start-genserver",
                         "call-genserver", "stop-genserver"}) =>
      LET w == AfterRpcResolved(World, t, Bootstrap(FALSE, OkTuple))
      IN w.last.res \notin {"ok", "none"}

\* C10: a deploy-module run that created the remote file returns only after the
\* file was deleted by the remote expression or its cleanup was attempted, for
\* every outcome of the remote evaluation and of the SSH calls.
C10_TempFileCleanup ==
  \A t \in TaskIds :
    (tasks[t].op = "deploy-module" /\ tasks[t].file # "none") =>
      LET Cleaned(w) == w.last.op = "deploy-module" => w.last.file \in {"deleted", "cleanup"}
      IN /\ tasks[t].pc = "rpcDial" => \A ok \in BOOLEAN : Cleaned(DeployAfterRpcDial(World, t, ok))
         /\ tasks[t].pc = "rmDial" => \A ok \in BOOLEAN : Cleaned(DeployAfterRmDial(World, t, ok))
         /\ tasks[t].pc = "rm" => Cleaned(DeployAfterRm(World, t))
         /\ tasks[t].pc = "rpc" =>
              \A ok \in BOOLEAN, reachable \in BOOLEAN,
                 remote \in {"loads", "compile_error", "load_error"} :
                LET r == DeployExpr(tasks[t].lang, remote)
                IN Cleaned(DeployAfterRpc(World, t, ok, Bootstrap(reachable, r.value),
                                          reachable /\ r.deleted))

\* ------------------------------------------------- tool schemas and atoms
\* A caller-supplied string is a sequence of characters.
MaxStr == 2
AtomFirst == {"a", "B", "_"}
AtomRest == AtomFirst \cup {"7", ".", ":"}
Alphabet == AtomRest \cup {" ", "'"}
Strings == UNION {[1..n -> Alphabet] : n \in 0..MaxStr}

\* atomNameRegex.test(s): /^[a-zA-Z_][a-zA-Z0-9_.:]*$/
AtomNameRegex(s) ==
  /\ Len(s) >= 1
  /\ s[1] \in AtomFirst
  /\ \A i \in 2..Len(s) : s[i] \in AtomRest

Absent == [present |-> FALSE, val |-> <<>>]
Given(s) == [present |-> TRUE, val |-> s]

Tools == {"start-node", "stop-node", "restart-node", "list-nodes", "inspect-node",
          "deploy-module", "start-genserver", "call-genserver", "stop-genserver"}

\* the arguments of a tool call that name things: the node, and the module,
\* registration and server of the gen-server tools
ToolCalls ==
  [tool : {"start-node", "stop-node", "restart-node", "inspect-node", "deploy-module"},
   name : Strings, module : {Absent}, registerAs : {Absent}, server : {Absent}]
  \cup [tool : {"list-nodes"},
        name : {<<>>}, module : {Absent}, registerAs : {Absent}, server : {Absent}]
  \cup [tool : {"start-genserver"}, name : {<<"a">>, <<"'">>},
        module : {Given(x) : x \in Strings},
        registerAs : {Absent} \cup {Given(x) : x \in Strings}, server : {Absent}]
  \cup [tool : {"call-genserver", "stop-genserver"}, name : {<<"a">>, <<"'">>},
        module : {Absent}, registerAs : {Absent}, server : {Given(x) : x \in Strings}]

\* the zod schema of each tool: name is z.string() everywhere; module,
\* registerAs and server are z.string().regex(atomNameRegex)
SchemaOk(call) ==
  CASE call.tool = "start-genserver" ->
         /\ AtomNameRegex(call.module.val)
         /\ call.registerAs.present => AtomNameRegex(call.registerAs.val)
    [] call.tool \in {"call-genserver", "stop-genserver"} -> AtomNameRegex(call.server.val)
    [] OTHER -> TRUE

\* an atom literal '...' of a generated Erlang expression, and the
\* caller-supplied name it is built from
Atom(text, from) == [text |-> text, from |-> from]

\* '${targetNode}@${shortHost}' of rpcCall, rpcRaw and the probe
FullTarget(name) == Atom(name \o <<"@">> \o <<HostnameS>>, name)

\* The atoms of the Erlang code a handler sends once its prechecks have passed
\* (the node exists and runs): the ping target always, and the names the
\* expression of the tool quotes.
EmbeddedAtoms(call) ==
  CASE call.tool = "stop-node" -> {}
    [] call.tool = "start-genserver" ->
         {FullTarget(call.name), Atom(call.module.val, call.module.val)}
           \cup (IF call.registerAs.present /\ call.registerAs.val # <<>>
                   THEN {Atom(call.registerAs.val, call.registerAs.val)} ELSE {})
    [] call.tool \in {"call-genserver", "stop-genserver"} ->
         {FullTarget(call.name), Atom(call.server.val, call.server.val)}
    [] call.tool = "list-nodes" -> {}
    [] OTHER -> {FullTarget(call.name)}

\* the tool boundary: the schema is tested, and only then the handler is called
ToolBoundary(call) ==
  IF ~SchemaOk(call) THEN [res |-> "BadAtomName", atoms |-> {}]
  ELSE [res |-> "handler", atoms |-> EmbeddedAtoms(call)]

\* a tool call arrives; the boundary answers it
Validate ==
  /\ ret = NoValue
  /\ ret' = ToolBoundary(arg)
  /\ UNCHANGED <<sshHosts, SSH_PRIVATE_KEY, clients, nodes, managed, probes, tasks,
                 exit, arg, panel>>

Idle ==
  /\ sshHosts = [l \in {HostA} |-> [connection |-> 0, remoteShortHost |-> ""]]
  /\ SSH_PRIVATE_KEY = TRUE
  /\ clients = [c \in ClientIds |-> NoClient]
  /\ nodes = [n \in Names |-> NoEntry]
  /\ managed = [k \in Chans |-> NoManaged]
  /\ probes = [k \in Chans |-> NoProbe]
  /\ tasks = [t \in TaskIds |-> IdleTask]
  /\ exit = Running

InitAtoms == Idle /\ arg \in ToolCalls /\ ret = NoValue /\ panel = NoValue

SpecAtoms == InitAtoms /\ [][Validate]_vars

\* C11: no command is sent that embeds as an Erlang atom a caller-supplied name
\* the atom-name validator refuses; a call with such a name is answered
\* BadAtomName at the boundary.
C11_OnlyValidAtoms ==
  ret # NoValue =>
    /\ \A a \in ret.atoms : AtomNameRegex(a.from)
    /\ (arg.name # <<>> /\ ~AtomNameRegex(arg.name)) => ret.res = "BadAtomName"

\* ------------------------------------------------------------ configuration
\* parseSSHHosts and the environment: a host list that is empty or holds the
\* one host, a private key that is set or not
InitCfg ==
  /\ sshHosts \in {[l \in {} |-> [connection |-> 0, remoteShortHost |-> ""]],
                   [l \in {HostA} |-> [connection |-> 0, remoteShortHost |-> ""]]}
  /\ SSH_PRIVATE_KEY \in BOOLEAN
  /\ clients = [c \in ClientIds |-> NoClient]
  /\ nodes = [n \in Names |-> NoEntry]
  /\ managed = [k \in Chans |-> NoManaged]
  /\ probes = [k \in Chans |-> NoProbe]
  /\ tasks = [t \in TaskIds |-> IdleTask]
  /\ exit = Running
  /\ arg = NoValue /\ ret = NoValue /\ panel = NoValue

\* every tool under every configuration
SpecCfg == InitCfg /\ [][NextOps]_vars

\* every handler called by task t, with every argument of the model
AllHandlers(w, t) ==
  {StartNode(w, t, n, a.type, a.cookie, host) :
     n \in Names, a \in StartArgs, host \in HostArgs}
    \cup UNION {ByName(w, t, n) : n \in Names}
    \cup {ListNodes(w, t)}

\* C12: with no host or no private key configured every operation returns the
\* configuration error, issues no SSH call and changes nothing, and it does so
\* before any other check (an unknown host label, a missing name).
C12_ConfigGuardFirst ==
  (IdleTasks # {} /\ (DOMAIN sshHosts = {} \/ ~SSH_PRIVATE_KEY)) =>
    \A w \in AllHandlers(World, FreeTask) :
      w.last.res = "ConfigMissing" /\ w.io = {} /\ Untouched(w)

C12_Witness ==
  /\ DOMAIN sshHosts # {} /\ ~SSH_PRIVATE_KEY
  /\ \A w \in AllHandlers(World, FreeTask) : w.last.res = "ConfigMissing"
  /\ StartNode(World, FreeTask, "w1", "erlang", "c1", BadHost).last.res = "ConfigMissing"
  /\ ListNodes(World, FreeTask).last.op = "list-nodes"

\* ------------------------------------------------------------------ cleanup
\* the calls of cleanup that can throw: close(k) of a channel, end(c) of a client
CleanupCalls == {<<"close", k>> : k \in Chans} \cup {<<"end", c>> : c \in ClientIds}

\* for (const [, node] of nodes) { try { node.channel.close(); } catch {} }
\* cur is the place of the entry visited last, throws the calls that throw
RECURSIVE CleanupNodes(_, _, _)
CleanupNodes(w, cur, throws) ==
  LET rest == {n \in Names : w.nodes[n].ref # 0 /\ w.nodes[n].pos > cur}
  IN IF rest = {} THEN [w |-> w, calls |-> <<>>]
     ELSE LET name == CHOOSE n \in rest : \A m \in rest : w.nodes[n].pos <= w.nodes[m].pos
              k == w.nodes[name].ref
              w1 == IF <<"close", k>> \in throws THEN w ELSE ChannelClose(w, k)
              r == CleanupNodes(w1, w.nodes[name].pos, throws)
          IN [w |-> r.w, calls |-> <<<<"close", k>>>> \o r.calls]

\* for (const [, hostConfig] of sshHosts)
\*   { try { hostConfig.connection?.end(); } catch {}  hostConfig.connection = null; }
RECURSIVE CleanupHosts(_, _, _)
CleanupHosts(w, todo, throws) ==
  IF todo = {} THEN [w |-> w, calls |-> <<>>]
  ELSE LET l == CHOOSE x \in todo : TRUE
           c == w.sshHosts[l].connection
           w1 == IF c # 0 /\ <<"end", c>> \notin throws
                   THEN [w EXCEPT !.clients[c].st = "ending"] ELSE w
           r == CleanupHosts([w1 EXCEPT !.sshHosts[l].connection = 0], todo \ {l}, throws)
       IN [w |-> r.w,
           calls |-> (IF c # 0 THEN <<<<"end", c>>>> ELSE <<>>) \o r.calls]

\* cleanup ending the clients before it closes the channels
Cleanup_EndFirst(w, throws) ==
  LET b == CleanupHosts(w, DOMAIN w.sshHosts, throws)
      a == CleanupNodes(b.w, 0, throws)
  IN [w |-> a.w, calls |-> b.calls \o a.calls]

\* cleanup(): the world it leaves and the calls it made, in order
Cleanup(w, throws) ==
  LET a == CleanupNodes(w, 0, throws)
      b == CleanupHosts(a.w, DOMAIN w.sshHosts, throws)
  IN [w |-> b.w, calls |-> a.calls \o b.calls]

\* process.on("SIGINT" / "SIGTERM", () => { cleanup(); process.exit(0); })
Signal ==
  \E throws \in SUBSET CleanupCalls :
    LET w == Cleanup(World, throws).w
    IN /\ ~exit.done
       /\ sshHosts' = w.sshHosts
       /\ SSH_PRIVATE_KEY' = w.key
       /\ clients' = w.clients
       /\ nodes' = w.nodes
       /\ managed' = Collect(w)
       /\ probes' = w.probes
       /\ tasks' = w.tasks
       /\ exit' = [done |-> TRUE, code |-> 0]
       /\ UNCHANGED <<arg, ret, panel>>

\* Start and stop of two names, one call at a time, every event, and a signal.
NextSig ==
  \/ CallStartNode(Names, 1)
  \/ CallStopNode(Names, 1)
  \/ ClientReady
  \/ ClientError
  \/ ClientClose
  \/ HostnameOk
  \/ CookieDone
  \/ SpawnDone
  \/ ChannelClosed
  \/ ProbeTimer
  \/ ProbeDone
  \/ Signal

SpecSig == Init /\ [][NextSig]_vars

Place(calls, c) == CHOOSE i \in 1..Len(calls) : calls[i] = c

\* C13: on a signal, close is called on the channel of every registry entry
\* before end is called on any cached client, whichever of these calls throw;
\* afterwards no host holds a connection and the process has exited with code 0.
C13_CleanupOnSignal ==
  /\ ~exit.done =>
       \A throws \in SUBSET CleanupCalls :
         LET r == Cleanup(World, throws)
             closes == {<<"close", nodes[n].ref>> : n \in {m \in Names : nodes[m].ref # 0}}
             ends == {<<"end", sshHosts[l].connection>> :
                        l \in {x \in DOMAIN sshHosts : sshHosts[x].connection # 0}}
         IN /\ {r.calls[i] : i \in 1..Len(r.calls)} = closes \cup ends
            /\ Len(r.calls) = Cardinality(closes \cup ends)
            /\ \A c \in closes, e \in ends : Place(r.calls, c) < Place(r.calls, e)
            /\ \A l \in DOMAIN sshHosts : r.w.sshHosts[l].connection = 0
            /\ r.w.nodes = nodes
  /\ exit.done =>
       /\ exit.code = 0
       /\ \A l \in DOMAIN sshHosts : sshHosts[l].connection = 0

C13_Witness ==
  /\ exit.done /\ exit.code = 0
  /\ \A n \in Names : nodes[n].ref # 0 /\ managed[nodes[n].ref].channel = "closing"
  /\ \E c \in ClientIds : clients[c].st = "ending"

\* ------------------------------------------------------- topology panel
\* The ProcessTopology component, once its props have loaded (isPending false).
MaxPolls == 2
MaxCount == 3
EdgeKeys == {"p|q", "q|p"}
Graphs == {"g0", "g1"}
NoEdges == [k \in {} |-> 0]

\* what a poll-trace reports: counts of some edges
PolledEdges == {[k \in D |-> 1] : D \in SUBSET EdgeKeys}

\* an updater that takes a polled count in place of the one displayed
Merge_Replace(prev, polled) ==
  [k \in DOMAIN prev \cup DOMAIN polled |->
     IF k \in DOMAIN polled THEN polled[k] ELSE prev[k]]

\* the updater of setTraceEdges in doPoll: add the polled counts to the view's
Merge(prev, polled) ==
  [k \in DOMAIN prev \cup DOMAIN polled |->
     (IF k \in DOMAIN prev THEN prev[k] ELSE 0)
       + (IF k \in DOMAIN polled THEN polled[k] ELSE 0)]

\* the polling effect runs for tracing = true: doPoll(), then setInterval
PollingEffect(p) == [p EXCEPT !.inflight = @ + 1, !.timer = TRUE]

\* its cleanup, when tracing turns false: clearInterval
PollingCleanup(p) == [p EXCEPT !.timer = FALSE]

\* the props-sync effect on load
PanelLoad(traceActive, edges, graph) ==
  LET p == [tracing |-> FALSE, traceEdges |-> NoEdges, graph |-> graph, timer |-> FALSE,
            inflight |-> 0, toggle |-> "none", sinceStop |-> FALSE]
  IN IF traceActive
       THEN PollingEffect([p EXCEPT !.tracing = TRUE, !.traceEdges = edges])
       ELSE p

\* handleToggleTrace up to its await
ToggleTrace(p) ==
  [p EXCEPT !.toggle = IF p.tracing THEN "stopping" ELSE "starting"]

\* stopTrace / startTrace settled.  sinceStop records that a stop-trace has
\* completed and tracing was not started since.
ToggleSettled(p, ok) ==
  LET p0 == [p EXCEPT !.toggle = "none"]
  IN IF ~ok THEN p0
     ELSE IF p.toggle = "stopping"
       THEN LET p1 == [p0 EXCEPT !.tracing = FALSE, !.traceEdges = NoEdges,
                                 !.sinceStop = TRUE]
            IN IF p.tracing THEN PollingCleanup(p1) ELSE p1
     ELSE LET p1 == [p0 EXCEPT !.tracing = TRUE, !.sinceStop = FALSE]
          IN IF p.tracing THEN p1 ELSE PollingEffect(p1)

\* the interval fires: doPoll() up to its await
PollTick(p) == [p EXCEPT !.inflight = @ + 1]

\* a doPoll whose catch block stops tracing
PollSettled_FailureStops(p, ok, sc) ==
  LET p0 == [p EXCEPT !.inflight = @ - 1]
  IN IF ~ok THEN PollingCleanup([p0 EXCEPT !.tracing = FALSE])
     ELSE LET p1 == [p0 EXCEPT !.graph = sc.graph,
                               !.traceEdges = Merge(p.traceEdges, sc.traceEdges)]
          IN IF sc.traceActive THEN p1
             ELSE IF p.tracing THEN PollingCleanup([p1 EXCEPT !.tracing = FALSE])
             ELSE p1

\* pollTrace settled: it threw (or gave no structuredContent), or it gave sc
PollSettled(p, ok, sc) ==
  LET p0 == [p EXCEPT !.inflight = @ - 1]
  IN IF ~ok THEN p0
     ELSE LET p1 == [p0 EXCEPT !.graph = sc.graph,
                               !.traceEdges = Merge(p.traceEdges, sc.traceEdges)]
          IN IF sc.traceActive THEN p1
             ELSE IF p.tracing THEN PollingCleanup([p1 EXCEPT !.tracing = FALSE])
             ELSE p1

PanelStep(p) ==
  /\ panel' = p
  /\ UNCHANGED <<sshHosts, SSH_PRIVATE_KEY, clients, nodes, managed, probes, tasks,
                 exit, arg, ret>>

ClickToggle == panel.toggle = "none" /\ PanelStep(ToggleTrace(panel))

ToggleDone ==
  \E ok \in BOOLEAN :
    /\ panel.toggle # "none"
    /\ ToggleSettled(panel, ok).inflight <= MaxPolls
    /\ PanelStep(ToggleSettled(panel, ok))

IntervalFires ==
  /\ panel.timer /\ panel.inflight < MaxPolls
  /\ PanelStep(PollTick(panel))

PollResults ==
  [graph : Graphs, traceEdges : PolledEdges, traceActive : BOOLEAN]

PollDone ==
  \E ok \in BOOLEAN, sc \in PollResults :
    /\ panel.inflight > 0
    /\ \A k \in DOMAIN Merge(panel.traceEdges, sc.traceEdges) :
         Merge(panel.traceEdges, sc.traceEdges)[k] <= MaxCount
    /\ PanelStep(PollSettled(panel, ok, sc))

InitPanel ==
  /\ Idle /\ arg = NoValue /\ ret = NoValue
  /\ panel \in {PanelLoad(a, e, g) : a \in BOOLEAN, e \in PolledEdges, g \in Graphs}

NextPanel == ClickToggle \/ ToggleDone \/ IntervalFires \/ PollDone

SpecPanel == InitPanel /\ [][NextPanel]_vars

\* C14: once a stop-trace of the panel has completed, and until tracing is
\* started again, the poll timer is cleared and the trace-edge view is empty,
\* whenever the polls that were in flight settle.
C14_EmptyAfterStop ==
  (panel # NoValue /\ panel.sinceStop) =>
    ~panel.timer /\ panel.traceEdges = NoEdges

\* ------------------------------------------------ call-genserver's timeouts
\* timeout: z.number().int().min(1).max(60000).default(5000)
MinCallTimeout == 1
MaxCallTimeout == 60000
DefaultCallTimeout == 5000
CallTimeouts == MinCallTimeout..MaxCallTimeout

SshMargin == 5000
SshFloor == 10000

SshTimeout_NoFloor(callTimeout) == callTimeout + SshMargin

\* const sshTimeout = Math.max(callTimeout + 5000, 10_000)
SshTimeout(callTimeout) ==
  IF callTimeout + SshMargin >= SshFloor THEN callTimeout + SshMargin ELSE SshFloor

\* call-genserver on a running node with the timeout in arg: the timeout handed
\* to rpcCall, and so to the exec that carries gen_server:call(_, _, arg)
CallTimeout ==
  /\ ~exit.done
  /\ arg \in CallTimeouts
  /\ ret = NoValue
  /\ ret' = [callTimeout |-> arg, sshTimeout |-> SshTimeout(arg)]
  /\ UNCHANGED <<sshHosts, SSH_PRIVATE_KEY, clients, nodes, managed, probes, tasks,
                 exit, arg, panel>>

InitTimeouts == Idle /\ arg \in CallTimeouts /\ ret = NoValue /\ panel = NoValue

SpecTimeouts == InitTimeouts /\ [][CallTimeout]_vars

\* C15: for every call-genserver timeout t from 1 to 60000 ms the timeout of the
\* SSH exec is the larger of t + 5000 and 10000: never under 10000 ms and always
\* more than t, so the transport's timer is the longer of the two.
C15_SshTimeoutOutlasts ==
  ret # NoValue =>
    /\ ret.callTimeout \in 1..60000
    /\ ret.sshTimeout \in {ret.callTimeout + 5000, 10000}
    /\ ret.sshTimeout >= ret.callTimeout + 5000
    /\ ret.sshTimeout >= 10000
    /\ ret.sshTimeout > ret.callTimeout

\* the default timeout: the floor applies below it, the margin above it
C15_Witness ==
  /\ ret # NoValue
  /\ ret.callTimeout = 4999
  /\ ret.sshTimeout = 10000

\* ------------------------------------------------------------- shellEscape
\* strings are sequences of characters; the characters that matter to a POSIX
\* shell inside and outside single quotes, and one that matters to neither
MaxArg == 3
Quote == "'"
Backslash == "\\"
Space == " "
ShellChars == {"a", Quote, Backslash, Space}
ShellArgs == UNION {[1..n -> ShellChars] : n \in 0..MaxArg}

\* s.replace(/'/g, "'\\''"): every single quote becomes the four characters
\* quote, backslash, quote, quote
RECURSIVE ReplaceQuotes(_)
ReplaceQuotes(s) ==
  IF s = <<>> THEN <<>>
  ELSE (IF Head(s) = Quote THEN <<Quote, Backslash, Quote, Quote>> ELSE <<Head(s)>>)
       \o ReplaceQuotes(Tail(s))

ShellEscape_NoReplace(s) == <<Quote>> \o s \o <<Quote>>

\* return "'" + s.replace(/'/g, "'\\''") + "'"
ShellEscape(s) == <<Quote>> \o ReplaceQuotes(s) \o <<Quote>>

\* the remote shell reading the command: outside quotes a quote opens a quoted
\* stretch, a backslash keeps the next character, a space ends the word; inside
\* single quotes every character up to the closing quote is kept as it is
RECURSIVE ShWords(_, _, _, _, _, _)
ShWords(text, i, mode, cur, inword, words) ==
  IF i > Len(text)
  THEN IF mode # "plain" THEN [ok |-> FALSE, words |-> <<>>]
       ELSE [ok |-> TRUE, words |-> IF inword THEN Append(words, cur) ELSE words]
  ELSE LET c == text[i] IN
    CASE mode = "single" ->
           IF c = Quote THEN ShWords(text, i + 1, "plain", cur, TRUE, words)
           ELSE ShWords(text, i + 1, "single", Append(cur, c), TRUE, words)
      [] mode = "escape" -> ShWords(text, i + 1, "plain", Append(cur, c), TRUE, words)
      [] OTHER ->
           IF c = Quote THEN ShWords(text, i + 1, "single", cur, TRUE, words)
           ELSE IF c = Backslash THEN ShWords(text, i + 1, "escape", cur, TRUE, words)
           ELSE IF c = Space
             THEN IF inword THEN ShWords(text, i + 1, "plain", <<>>, FALSE, Append(words, cur))
                  ELSE ShWords(text, i + 1, "plain", cur, FALSE, words)
           ELSE ShWords(text, i + 1, "plain", Append(cur, c), TRUE, words)

ShParse(text) == ShWords(text, 1, "plain", <<>>, FALSE, <<>>)

\* shellEscape applied to the string in arg
CallShellEscape ==
  /\ ~exit.done
  /\ arg \in ShellArgs
  /\ ret = NoValue
  /\ ret' = [s |-> arg, quoted |-> ShellEscape(arg)]
  /\ UNCHANGED <<sshHosts, SSH_PRIVATE_KEY, clients, nodes, managed, probes, tasks,
                 exit, arg, panel>>

InitShell == Idle /\ arg \in ShellArgs /\ ret = NoValue /\ panel = NoValue

SpecShell == InitShell /\ [][CallShellEscape]_vars

QuotesIn(s) == Cardinality({i \in DOMAIN s : s[i] = Quote})

\* the characters of q between its first and last
Inner(q) == SubSeq(q, 2, Len(q) - 1)

\* the stretches of q that stand for a character of s, in order: a quote's four
\* characters or one other character
RECURSIVE Undo(_)
Undo(q) ==
  IF q = <<>> THEN <<>>
  ELSE IF Len(q) >= 4 /\ SubSeq(q, 1, 4) = <<Quote, Backslash, Quote, Quote>>
    THEN <<Quote>> \o Undo(SubSeq(q, 5, Len(q)))
    ELSE <<Head(q)>> \o Undo(Tail(q))

\* C16: shellEscape(s) is s between two single quotes with every single quote of
\* s written as quote, backslash, quote, quote and every other character as
\* itself; a POSIX shell reads the result as the one word s.
C16_QuoteRoundTrip ==
  ret # NoValue =>
    LET q == ret.quoted IN
    /\ Len(q) = Len(ret.s) + 2 + 3 * QuotesIn(ret.s)
    /\ q[1] = Quote /\ q[Len(q)] = Quote
    /\ Undo(Inner(q)) = ret.s
    /\ \A i \in DOMAIN ret.s :
         ret.s[i] # Quote => q[1 + i + 3 * QuotesIn(SubSeq(ret.s, 1, i))] = ret.s[i]
    /\ ShParse(q) = [ok |-> TRUE, words |-> <<ret.s>>]

\* a string with a quote, a backslash and a space has been quoted
C16_Witness ==
  /\ ret # NoValue
  /\ ret.s = <<Quote, Backslash, Space>>
  /\ ret.quoted = <<Quote, Quote, Backslash, Quote, Quote, Backslash, Space, Quote>>

\* ------------------------------------------------- inspect-node's parser
\* what the remote expression prints, one row per registered process in the
\* format ~s|~s|~p|~p|~s:~s/~p~n, and rows that are not of that format
MaxLines == 3
Pipe == "|"
Newline == "\n"
RowA == <<"p", Pipe, "waiting", Pipe, "3", Pipe, "4", "2", Pipe, "m:f/0">>
RowB == <<"q", Pipe, "running", Pipe, "0", Pipe, "7", Pipe, "m:g/1">>
NoPipeRow == <<"garbage">>
ShortRow == <<"r", Pipe, "x">>
LongRow == <<"s", Pipe, "a", Pipe, "1", Pipe, "2", Pipe, "m:h/2", Pipe, "extra">>
EmptyRow == <<>>
Rows == {RowA, RowB, NoPipeRow, ShortRow, LongRow, EmptyRow}
RowLists == UNION {[1..n -> Rows] : n \in 0..MaxLines}

\* the text printed: each row followed by a newline
RECURSIVE Printed(_)
Printed(rows) ==
  IF rows = <<>> THEN <<>> ELSE Head(rows) \o <<Newline>> \o Printed(Tail(rows))

\* String.prototype.split(sep): the pieces between the separators, one piece
\* more than there are separators
RECURSIVE SplitFrom(_, _, _, _)
SplitFrom(text, sep, cur, out) ==
  IF text = <<>> THEN Append(out, cur)
  ELSE IF Head(text) = sep THEN SplitFrom(Tail(text), sep, <<>>, Append(out, cur))
  ELSE SplitFrom(Tail(text), sep, Append(cur, Head(text)), out)
Split(text, sep) == SplitFrom(text, sep, <<>>, <<>>)

\* line.includes("|")
Includes(line, c) == \E i \in DOMAIN line : line[i] = c

\* an array element that destructuring finds missing
Undefined == <<"undefined">>
Element(parts, i) == IF i <= Len(parts) THEN parts[i] ELSE Undefined

\* parseInt(x, 10) || 0
OrZero(n) == IF n = NaN \/ n = 0 THEN 0 ELSE n

\* const [pName, status, mqLen, memory, currentFn] = line.split("|")
ProcessOf(line) ==
  LET parts == Split(line, Pipe) IN
    [name |-> Element(parts, 1),
     status |-> Element(parts, 2),
     messageQueueLen |-> OrZero(ParseInt(Element(parts, 3))),
     memory |-> OrZero(ParseInt(Element(parts, 4))),
     currentFunction |-> Element(parts, 5)]

ParseProcesses_NoFilter(output) ==
  LET lines == Split(output, Newline) IN [i \in 1..Len(lines) |-> ProcessOf(lines[i])]

\* output.split("\n").filter((line) => line.includes("|")).map(...)
ParseProcesses(output) ==
  LET lines == SelectSeq(Split(output, Newline), LAMBDA line : Includes(line, Pipe))
  IN [i \in 1..Len(lines) |-> ProcessOf(lines[i])]

\* inspect-node's rpcRaw has resolved with the rows in arg
ParseOutput ==
  /\ ~exit.done
  /\ arg \in RowLists
  /\ ret = NoValue
  /\ ret' = [rows |-> arg, processes |-> ParseProcesses(Printed(arg))]
  /\ UNCHANGED <<sshHosts, SSH_PRIVATE_KEY, clients, nodes, managed, probes, tasks,
                 exit, arg, panel>>

InitParse == Idle /\ arg \in RowLists /\ ret = NoValue /\ panel = NoValue

SpecParse == InitParse /\ [][ParseOutput]_vars

Pipes(row) == Cardinality({i \in DOMAIN row : row[i] = Pipe})
WellFormed(row) == Pipes(row) = 4
ProcessA == [name |-> <<"p">>, status |-> <<"waiting">>, messageQueueLen |-> 3,
             memory |-> 42, currentFunction |-> <<"m:f/0">>]
ProcessB == [name |-> <<"q">>, status |-> <<"running">>, messageQueueLen |-> 0,
             memory |-> 7, currentFunction |-> <<"m:g/1">>]

\* C17 as stated: the parser returns one record for every row of five fields and
\* drops every other row.
C17_DropsMalformed ==
  ret # NoValue => Len(ret.processes) = Len(SelectSeq(ret.rows, WellFormed))

\* C17: the parser returns one record, in order, for every row that contains a
\* '|' and drops exactly the rows that contain none; a row of five fields gives
\* the record of its five fields, so a row without '|' and two rows of five
\* fields give exactly two processes.
C17_DropsRowsWithoutPipe ==
  ret # NoValue =>
    LET kept == SelectSeq(ret.rows, LAMBDA row : Pipes(row) > 0) IN
    /\ Len(ret.processes) = Len(kept)
    /\ \A i \in DOMAIN kept :
         /\ kept[i] = RowA => ret.processes[i] = ProcessA
         /\ kept[i] = RowB => ret.processes[i] = ProcessB
         /\ ret.processes[i].name = SubSeq(kept[i], 1, 1)
    /\ (\A i \in DOMAIN ret.rows : WellFormed(ret.rows[i]) \/ Pipes(ret.rows[i]) = 0)
         => Len(ret.processes) = Len(SelectSeq(ret.rows, WellFormed))

\* a row without '|' and two rows of five fields have been parsed
C17_Witness ==
  /\ ret # NoValue
  /\ ret.rows = <<NoPipeRow, RowA, RowB>>
  /\ ret.processes = <<ProcessA, ProcessB>>

\* ------------------------------------------------------- close events
\* channel k emits close in this step
Closes(k) == managed[k].channel \in {"open", "closing"} /\ managed'[k].channel = "closed"

\* entry k is the one the registry holds under its name
Registered(k) == managed[k].name \in Names /\ nodes[managed[k].name].ref = k

\* C18: when the channel of an entry that is in the registry emits close, the
\* entry's status becomes stopped whatever it was, and an entry that is stopped
\* and in the registry is still stopped after any close event.
C18_CloseStops ==
  [][\A k \in Chans :
       Closes(k) =>
         /\ Registered(k) => managed'[k].status = "stopped"
         /\ \A n \in Chans :
              (Registered(n) /\ managed[n].status = "stopped") =>
                managed'[n].status = "stopped"]_vars

\* an entry in the registry is stopped, its channel having emitted close, while
\* the channel of an earlier start of the same name has yet to emit close
C18_Witness ==
  \E k \in Chans, j \in Chans :
    /\ j # k
    /\ Registered(k)
    /\ managed[k].status = "stopped" /\ managed[k].channel = "closed"
    /\ managed[j].name = managed[k].name /\ managed[j].channel = "closing"

\* C19: an entry in the registry is stopped only if the channel stored in that
\* entry has emitted close; the close of a channel of an earlier start of the
\* name leaves the entry of a later start as it was.
C19_StoppedOnlyByOwnClose ==
  \A k \in Chans :
    (Registered(k) /\ managed[k].status = "stopped") => managed[k].channel = "closed"

\* ------------------------------------------------------- the start probe
\* the entry the probe of start k finds under its name, 0 when there is none
Probed(k) == nodes[managed[k].name].ref

\* what the probe of start k leaves when its ping settles with (ok, out)
Verdict(k, ok, out) == ProbeResult(World, k, ok, out).managed

\* C20: the probe sets an entry to running only when its ping printed pong and
\* the entry is still starting; a pang, an SSH error or a timeout while the entry
\* is starting sets it to error; no other step of the program sets running.
C20_ProbeVerdict ==
  /\ [](\A k \in Chans : probes[k].pc = "exec" =>
          \A ok \in BOOLEAN, out \in {"pong", "pang"} :
            /\ \A m \in Chans :
                 (Verdict(k, ok, out)[m].status = "running" /\ managed[m].status # "running")
                   => (ok /\ out = "pong" /\ m = Probed(k) /\ managed[m].status = "starting")
            /\ (Probed(k) # 0 /\ managed[Probed(k)].status = "starting") =>
                 Verdict(k, ok, out)[Probed(k)].status =
                   IF ok /\ out = "pong" THEN "running" ELSE "error")
  /\ [](\A k \in Chans :
          (probes[k].pc \in {"timer", "dial"} /\ Probed(k) # 0
             /\ managed[Probed(k)].status = "starting")
            => ProbeAfterDial(World, k, FALSE).managed[Probed(k)].status = "error")
  /\ [][\A m \in Chans :
          (managed'[m].status = "running" /\ managed[m].status # "running") =>
            /\ managed[m].status = "starting"
            /\ \E k \in Chans : probes[k].pc = "exec" /\ probes'[k].pc = "done"
                                /\ Probed(k) = m]_vars

\* a probe has found its entry starting and has set it to running
C20_Witness ==
  \E k \in Chans :
    /\ Registered(k) /\ probes[k].pc = "done"
    /\ managed[k].status = "running" /\ managed[k].channel = "open"

\* --------------------------------------------- probes and stopped entries
\* the statuses of the entries after the probe of start k has run its next step
\* in one of the ways it can: the timer fires, the awaited dial fails, or the ping
\* settles with (ok, out)
ProbeOutcomes(k) ==
  CASE probes[k].pc = "timer" -> {ProbeFire(World, k).managed}
    [] probes[k].pc = "dial" -> {ProbeAfterDial(World, k, FALSE).managed}
    [] probes[k].pc = "exec" ->
         {ProbeResult(World, k, ok, out).managed : ok \in BOOLEAN, out \in {"pong", "pang"}}
    [] OTHER -> {}

\* C21: when the entry is already stopped, what the probe brings is discarded
\* and the entry stays stopped, whether the ping printed pong or pang, failed or
\* timed out, and also when the channel closed while the probe was in flight.
C21_StoppedDiscardsProbe ==
  \A k \in Chans :
    (managed[k].channel # "unused" /\ Probed(k) # 0
       /\ managed[Probed(k)].status = "stopped") =>
      \A after \in ProbeOutcomes(k) : after[Probed(k)].status = "stopped"

\* C22: the probe of an entry that stop or restart has removed changes the
\* status of no entry of the registry, an entry created later under the same name
\* included.
C22_RemovedProbeDiscarded ==
  \A k \in Chans :
    (managed[k].channel # "unused" /\ ~Registered(k)) =>
      \A after \in ProbeOutcomes(k) :
        \A m \in Chans : Registered(m) => after[m].status = managed[m].status

\* ------------------------------------------------- the status of an entry
\* entry m is in the registry before and after the step, and its status changes
Moves(m, from, to) ==
  /\ Registered(m) /\ managed[m].status = from
  /\ nodes'[managed[m].name].ref = m /\ managed'[m].status = to

Statuses == {"starting", "running", "error", "stopped"}

\* C23: the status of a running entry changes only when its own channel emits
\* close, and then to stopped; nothing else moves a running entry.
C23_RunningUntilClose ==
  [][\A m \in Chans : \A to \in Statuses \ {"running"} :
       Moves(m, "running", to) => (to = "stopped" /\ Closes(m))]_vars

\* C24: an entry whose status is error or stopped keeps that status for as long
\* as it is in the registry.
C24_TerminalStatuses ==
  [][\A m \in Chans : \A from \in {"error", "stopped"} : \A to \in Statuses \ {from} :
       ~Moves(m, from, to)]_vars

\* C25: an entry of the registry that is starting or running has a channel that
\* has not emitted close.
C25_LiveChannel ==
  \A k \in Chans :
    (Registered(k) /\ managed[k].status \in {"starting", "running"}) =>
      managed[k].channel \in {"open", "closing"}

\* a running entry of the registry with its channel open and its probe done
C25_Witness ==
  \E k \in Chans :
    /\ Registered(k) /\ managed[k].status = "running"
    /\ managed[k].channel = "open" /\ probes[k].pc = "done"
    /\ \E j \in Chans : j # k /\ managed[j].channel = "closed"

\* ------------------------------------------------ stop after the close
\* the entry under name n is stopped and its channel has emitted close
ClosedAndStopped(n) ==
  /\ IdleTasks # {} /\ nodes[n].ref # 0
  /\ managed[nodes[n].ref].status = "stopped"
  /\ managed[nodes[n].ref].channel = "closed"

\* C26 as stated: after the channel's close has set the entry to stopped, a
\* stop-node on the name changes neither the registry nor any status.
C26_StopIsNoOp ==
  \A n \in Names :
    ClosedAndStopped(n) =>
      LET w == StopNode(World, FreeTask, n)
      IN w.nodes = nodes /\ \A k \in Chans : w.managed[k].status = managed[k].status

\* C26: after the channel's close has set the entry to stopped, a stop-node on
\* the name makes no further status transition and no second close on the
\* channel: it returns success and removes that entry from the registry, and
\* leaves every other entry, every status, client and probe as it was.
C26_StopAfterClose ==
  \A n \in Names :
    ClosedAndStopped(n) =>
      LET k == nodes[n].ref
          w == StopNode(World, FreeTask, n)
      IN /\ w.last.op = "stop-node" /\ w.last.res = "ok"
         /\ w.nodes[n] = NoEntry
         /\ \A m \in Names \ {n} : w.nodes[m] = nodes[m]
         /\ \A j \in Chans : /\ w.managed[j].status = managed[j].status
                             /\ w.managed[j].channel = managed[j].channel
         /\ w.io = {}
         /\ w.clients = clients /\ w.probes = probes /\ w.sshHosts = sshHosts
         /\ w.tasks = tasks
         /\ StopNode(After(w), FreeTask, n).last.res = "NodeUnknown"

\* one name's entry is stopped after its channel's close while the other name
\* has an entry of its own
C26_Witness ==
  \E n \in Names, m \in Names :
    /\ m # n /\ ClosedAndStopped(n) /\ nodes[m].ref # 0
    /\ managed[nodes[m].ref].status = "running"
    /\ StopNode(World, FreeTask, n).nodes[n] = NoEntry

\* ------------------------------------------------------ the connection pool
\* Concurrent start-node and stop-node calls on one name, with every outcome of
\* the dial and of the `hostname -s` probe, and the close of any client.
NextPool ==
  \/ CallStartNode({"w1"}, MaxTasks)
  \/ CallStopNode({"w1"}, MaxTasks)
  \/ ClientReady
  \/ ClientError
  \/ ClientClose
  \/ HostnameDone
  \/ CookieDone
  \/ SpawnDone
  \/ ChannelClosed
  \/ ProbeTimer
  \/ ProbeDone

SpecPool == Init /\ [][NextPool]_vars

Dialing(h) == {c \in ClientIds : clients[c].st = "dialing" /\ clients[c].host = h}
Live(h) == {c \in ClientIds : clients[c].st \in {"dialing", "up"} /\ clients[c].host = h}

\* C27: for each host at most one dial is in flight and at most one client is
\* live, so callers that ask for the connection while none is cached share the
\* one client that is created.
C27_OneDialPerHost ==
  \A h \in DOMAIN sshHosts :
    /\ Cardinality(Dialing(h)) <= 1
    /\ Cardinality(Live(h)) <= 1
    /\ \A t \in TaskIds :
         (tasks[t].conn # 0 /\ sshHosts[h].connection # 0) =>
           tasks[t].conn = sshHosts[h].connection

\* C28: a caller holds a client that getSSHConnection returned only when the
\* `hostname -s` probe of that client is over and the host's remoteShortHost is
\* stored, so that no start reads an unset remoteShortHost.
C28_ShortHostBeforeClient ==
  \A t \in TaskIds :
    tasks[t].conn # 0 => ~clients[tasks[t].conn].hn

\* C29: a host's remoteShortHost, once set, keeps its value.
C29_ShortHostConstant ==
  [][\A h \in DOMAIN sshHosts :
       sshHosts[h].remoteShortHost # "" =>
         sshHosts'[h].remoteShortHost = sshHosts[h].remoteShortHost]_vars

\* client c signals close or error in this step
Ends(c) == clients[c].st \in {"dialing", "up"} /\ clients'[c].st = "closed"

\* C30: the connection field holds a client from its ready until that client
\* signals close or error and is absent after that; it never holds a client that
\* has signalled close; the close of a client that is not the cached one leaves
\* the field as it is.
C30_CacheFollowsClient ==
  /\ [](\A h \in DOMAIN sshHosts :
          sshHosts[h].connection # 0 => clients[sshHosts[h].connection].st = "up")
  /\ [][\A h \in DOMAIN sshHosts : \A c \in ClientIds :
          /\ (Ends(c) /\ sshHosts[h].connection = c) => sshHosts'[h].connection = 0
          /\ (Ends(c) /\ clients[c].host = h /\ sshHosts[h].connection # c) =>
               sshHosts'[h].connection = sshHosts[h].connection
          /\ (sshHosts[h].connection = c /\ sshHosts'[h].connection # c) => Ends(c)]_vars

\* ------------------------------------------------------------ sshExecSimple
\* One call of sshExecSimple, held in ret: the promise it returned (outcome,
\* value, and how often resolve or reject was called on it), the session, the
\* timer and the stdout gathered so far.
MaxOut == 4
OutChars == {"a", Space}

\* String.prototype.trim on the characters of the model
RECURSIVE TrimLeft(_)
TrimLeft(s) == IF s # <<>> /\ Head(s) = Space THEN TrimLeft(Tail(s)) ELSE s
RECURSIVE TrimRight(_)
TrimRight(s) ==
  IF s # <<>> /\ s[Len(s)] = Space THEN TrimRight(SubSeq(s, 1, Len(s) - 1)) ELSE s
Trim(s) == TrimRight(TrimLeft(s))

\* new Promise(...): conn.exec has been called, its callback has not run
ExecStart == [stream |-> "none", timer |-> "none", stdout |-> <<>>,
              outcome |-> "pending", value |-> <<>>, settles |-> 0]

\* resolve / reject: only the first call on a promise settles it
Settle(e, outcome, value) ==
  IF e.outcome = "pending"
    THEN [e EXCEPT !.outcome = outcome, !.value = value, !.settles = @ + 1]
    ELSE [e EXCEPT !.settles = @ + 1]

\* the callback of conn.exec: reject(err), or wire the stream and arm the timer
ExecCallback(e, err) ==
  IF err THEN Settle(e, "rejected", <<"exec">>)
  ELSE [e EXCEPT !.stream = "open", !.timer = "armed"]

\* stream.on("data"): stdout += data
ExecData(e, c) == [e EXCEPT !.stdout = Append(@, c)]

\* the setTimeout callback: stream.close(); reject(new Error("SSH exec timeout ..."))
ExecTimeout(e) ==
  Settle([e EXCEPT !.timer = "fired",
                   !.stream = IF @ = "open" THEN "closing" ELSE @],
         "rejected", <<"SshTimeout">>)

\* a close listener that leaves the timer armed
ExecClose_KeepsTimer(e) ==
  Settle([e EXCEPT !.stream = "closed"], "resolved", Trim(e.stdout))

\* stream.on("close"): clearTimeout(timer); resolve(stdout.trim())
ExecClose(e) ==
  Settle([e EXCEPT !.stream = "closed",
                   !.timer = IF @ = "armed" THEN "cleared" ELSE @],
         "resolved", Trim(e.stdout))

ExecStep(e) ==
  /\ ~exit.done
  /\ ret' = e
  /\ UNCHANGED <<sshHosts, SSH_PRIVATE_KEY, clients, nodes, managed, probes, tasks,
                 exit, arg, panel>>

SessionOpened == \E err \in BOOLEAN : ret.stream = "none" /\ ret.outcome = "pending"
                                       /\ ExecStep(ExecCallback(ret, err))

StdoutData ==
  \E c \in OutChars :
    /\ ret.stream \in {"open", "closing"} /\ Len(ret.stdout) < MaxOut
    /\ ExecStep(ExecData(ret, c))

TimerFires == ret.timer = "armed" /\ ExecStep(ExecTimeout(ret))

SessionCloses == ret.stream \in {"open", "closing"} /\ ExecStep(ExecClose(ret))

InitExec == Idle /\ arg = NoValue /\ ret = ExecStart /\ panel = NoValue

NextExec == SessionOpened \/ StdoutData \/ TimerFires \/ SessionCloses

SpecExec == InitExec /\ [][NextExec]_vars

\* C31: once its session is open, an exec settles once and for all: with the
\* trimmed stdout when the session closes before the timeout, with SshTimeout
\* after the session was told to close otherwise; a close that comes after the
\* timeout changes nothing, and the timer does not fire after the close.
C31_SettlesOnce ==
  /\ [](ret.outcome = "resolved" =>
          /\ ret.stream = "closed" /\ ret.timer = "cleared"
          /\ ret.value = Trim(ret.stdout)
          /\ (ret.value # <<>> => ret.value[1] # Space /\ ret.value[Len(ret.value)] # Space))
  /\ [](ret.outcome = "rejected" /\ ret.stream # "none" =>
          /\ ret.value = <<"SshTimeout">> /\ ret.timer = "fired"
          /\ ret.stream \in {"closing", "closed"})
  /\ [](ret.stream = "closed" => ret.outcome # "pending" /\ ret.timer # "armed")
  /\ [][/\ ret.outcome # "pending" =>
             (ret'.outcome = ret.outcome /\ ret'.value = ret.value)
        /\ (ret.timer # "fired" /\ ret'.timer = "fired") => ret.stream = "open"]_vars

\* the timeout has rejected the call, and the close that followed, with output
\* gathered, has called resolve on the settled promise
C31_Witness ==
  /\ ret # NoValue /\ ret.outcome = "rejected" /\ ret.value = <<"SshTimeout">>
  /\ ret.stream = "closed" /\ ret.settles = 2 /\ ret.stdout = <<Space, "a", Space>>

\* --------------------------------------------------- channels and entries
\* C32: every node channel that is open belongs to the entry the registry holds
\* under its name, and an insert never replaces an entry whose channel is open;
\* so no two open channels were launched for the same host and name.
C32_OpenChannelIsRegistered ==
  /\ [](\A k \in Chans : managed[k].channel = "open" => Registered(k))
  /\ [][\A n \in Names :
          (nodes[n].ref # 0 /\ nodes'[n].ref \notin {0, nodes[n].ref}) =>
            managed[nodes[n].ref].channel # "open"]_vars

\* ------------------------------------------------- deploy-module's temp file
\* Two deploy-module operations on one host, held in ret with the clock that
\* Date.now() reads and the files under /tmp on the host: for each path, the
\* operation whose source it holds (0: no such file).
MaxClock == 2
DeployOps == {1, 2}
Ext(language) == IF language = "erlang" THEN "erl" ELSE "ex"

\* `/tmp/mcp_deploy_${ts}.${ext}`
RemotePath(ts, language) == <<"/tmp/mcp_deploy_", ts, ".", Ext(language)>>
RemotePaths == {RemotePath(ts, l) : ts \in 0..MaxClock, l \in Types}

NoDeploy == [pc |-> "idle", path |-> <<>>, compiled |-> 0]
DeployStart ==
  [now |-> 0, op |-> [o \in DeployOps |-> NoDeploy], files |-> [p \in RemotePaths |-> 0]]

\* const ts = Date.now(); const remotePath = ...; await sshWriteFile(...)
DeployBegin(d, o, language) ==
  [d EXCEPT !.op[o] = [pc |-> "upload", path |-> RemotePath(d.now, language),
                       compiled |-> 0]]

\* the upload's `base64 -d > remotePath` has run on the host
DeployWrite(d, o) ==
  [d EXCEPT !.files[d.op[o].path] = o, !.op[o].pc = "compile"]

\* the remote expression: compile the file at remotePath, file:delete it
DeployCompile(d, o) ==
  [d EXCEPT !.op[o].compiled = d.files[d.op[o].path], !.op[o].pc = "done",
            !.files[d.op[o].path] = 0]

\* the handler returns
DeployReturn(d, o) == [d EXCEPT !.op[o].pc = "idle"]

DeployStep(d) ==
  /\ ~exit.done
  /\ ret' = d
  /\ UNCHANGED <<sshHosts, SSH_PRIVATE_KEY, clients, nodes, managed, probes, tasks,
                 exit, arg, panel>>

ClockTick == ret.now < MaxClock /\ DeployStep([ret EXCEPT !.now = @ + 1])

DeployCalled ==
  \E o \in DeployOps, language \in Types :
    ret.op[o].pc = "idle" /\ DeployStep(DeployBegin(ret, o, language))

DeployUploaded ==
  \E o \in DeployOps : ret.op[o].pc = "upload" /\ DeployStep(DeployWrite(ret, o))

DeployCompiled ==
  \E o \in DeployOps : ret.op[o].pc = "compile" /\ DeployStep(DeployCompile(ret, o))

DeployReturned ==
  \E o \in DeployOps : ret.op[o].pc = "done" /\ DeployStep(DeployReturn(ret, o))

InitDeploy == Idle /\ arg = NoValue /\ ret = DeployStart /\ panel = NoValue

NextDeploy == ClockTick \/ DeployCalled \/ DeployUploaded \/ DeployCompiled \/ DeployReturned

SpecDeploy == InitDeploy /\ [][NextDeploy]_vars

InFlight(o) == ret.op[o].pc \in {"upload", "compile"}

\* C33: two deploy-module operations in flight at the same time never have the
\* same remote path, and an operation compiles (and deletes) only the file it
\* wrote itself.
C33_OwnTempFile ==
  /\ \A o1 \in DeployOps, o2 \in DeployOps :
       (o1 # o2 /\ InFlight(o1) /\ InFlight(o2)) => ret.op[o1].path # ret.op[o2].path
  /\ \A o \in DeployOps : ret.op[o].pc = "done" => ret.op[o].compiled = o

\* ----------------------------------------------------- the panel's polls
\* C34: a poll that fails changes nothing and stops nothing: tracing, the edges
\* and the graph shown and the interval timer are as before, and the next tick
\* of the interval issues the next poll.
C34_FailedPollIsIgnored ==
  (panel # NoValue /\ panel.inflight > 0) =>
    \A sc \in PollResults :
      LET q == PollSettled(panel, FALSE, sc)
      IN /\ q.tracing = panel.tracing
         /\ q.traceEdges = panel.traceEdges /\ q.graph = panel.graph
         /\ q.timer = panel.timer /\ q.toggle = panel.toggle
         /\ q.inflight = panel.inflight - 1
         /\ panel.tracing => (q.timer /\ PollTick(q).inflight = panel.inflight)

\* tracing with accumulated edges shown and a poll in flight, which fails
C34_Witness ==
  /\ panel # NoValue /\ panel.tracing /\ panel.timer /\ panel.inflight > 0
  /\ \E k \in DOMAIN panel.traceEdges : panel.traceEdges[k] = 2
  /\ \E sc \in PollResults : PollSettled(panel, FALSE, sc).traceEdges = panel.traceEdges

Shown(edges, k) == IF k \in DOMAIN edges THEN edges[k] ELSE 0

FailedWith(w, res) ==
  /\ w.last.res = res
  /\ w.nodes = nodes /\ w.managed = managed /\ w.probes = probes

Awaits(t, op, pc) == tasks[t].op = op /\ tasks[t].pc = pc

\* C36: a start-node that fails, by an unknown host label, a failed dial or a
\* failed spawn, leaves the registry as it was: no entry inserted, no close
\* listener and no probe set up.
C36_FailedStartInsertsNothing ==
  /\ \A n \in Names, a \in StartArgs :
       IdleTasks # {} =>
         FailedWith(StartNode(World, FreeTask, n, a.type, a.cookie, BadHost), "UnknownHost")
  /\ \A t \in TaskIds :
       /\ Awaits(t, "start-node", "dial") =>
            FailedWith(StartAfterDial(World, t, FALSE, 0), "SshDial")
       /\ Awaits(t, "start-node", "spawn") =>
            FailedWith(StartAfterSpawn(World, t, FALSE), "SshSpawn")

\* a start-node awaits its spawn while the registry holds no entry for its name
C36_Witness ==
  \E t \in TaskIds :
    /\ Awaits(t, "start-node", "spawn") /\ nodes[tasks[t].name].ref = 0
    /\ StartAfterSpawn(World, t, FALSE).last.res = "SshSpawn"

NextLife ==
  \/ CallStartNode({"w1"}, 1)
  \/ CallStopNode({"w1"}, 1)
  \/ CallRestartNode({"w1"}, 1)
  \/ ClientReady
  \/ ClientError
  \/ ClientClose
  \/ HostnameDone
  \/ CookieDone
  \/ SpawnDone
  \/ ChannelClosed
  \/ ProbeTimer
  \/ ProbeDone

\* Timers fire; an exec settles, by its close or by its timeout; a dial ends in
\* ready or in error.
Progress ==
  /\ WF_vars(ProbeTimer)
  /\ WF_vars(ProbeDone)
  /\ WF_vars(ClientReady \/ ClientError)
  /\ WF_vars(HostnameDone)

SpecLife == Init /\ [][NextLife]_vars /\ Progress

\* the clients of the model are used up: no connection is cached and the next
\* dial is beyond MaxClients
ClientsSpent == FreeClients(World) = {} /\ \A h \in DOMAIN sshHosts : sshHosts[h].connection = 0

ClientCloseBeforeReady ==
  \E c \in ClientIds : clients[c].st = "dialing" /\ Commit(OnClose(World, c))

NextDial == NextLife \/ ClientCloseBeforeReady

\* A dialing client emits one of ready, error and close.
SpecDial ==
  /\ Init /\ [][NextDial]_vars
  /\ WF_vars(ProbeTimer) /\ WF_vars(ProbeDone) /\ WF_vars(HostnameDone)
  /\ WF_vars(ClientReady \/ ClientError \/ ClientCloseBeforeReady)

\* C39: every handler and every probe that awaits getSSHConnection eventually
\* gets its answer, a client or a dial error, whatever the new client emits
C39_DialSettles ==
  /\ \A t \in TaskIds : (tasks[t].wait # 0) ~> (tasks[t].wait = 0 \/ ClientsSpent)
  /\ \A k \in Chans : (probes[k].wait # 0) ~> (probes[k].wait = 0 \/ ClientsSpent)

\* ------------------------------------------------------- the remote tools
RpcTools == {"inspect-node", "deploy-module", "start-genserver", "call-genserver",
             "stop-genserver"}

\* a step of one of the five handlers: its call, or one of its awaits settling
RpcToolStep ==
  \E t \in TaskIds :
    /\ tasks'[t] # tasks[t]
    /\ tasks[t].op \in RpcTools \/ tasks'[t].op \in RpcTools

\* C40: no step of inspect-node, deploy-module, start-genserver, call-genserver
\* or stop-genserver adds, removes or changes a registry entry, whether the
\* remote evaluation succeeds, fails or is never reached
C40_RpcToolsLeaveRegistry ==
  [][RpcToolStep => nodes' = nodes /\ managed' = managed]_vars

\* a deploy-module whose evaluation failed is at its cleanup, on a node that
\* is in the registry and running
C40_Witness ==
  \E t \in TaskIds :
    /\ tasks[t].op = "deploy-module"
    /\ tasks[t].pc = "rm"
    /\ Registered(tasks[t].node)
    /\ managed[tasks[t].node].status = "running"

====
